---- MODULE Spec2Model ----
(***************************************************************************)
(* A model of the Light Regional Council development-application scraper   *)
(* (scraper.ts): the layout-based extraction of application records from   *)
(* the positioned text fragments of a PDF document.                        *)
(*                                                                         *)
(* Strings are sequences of one-character strings, so that trimming,       *)
(* splitting, pattern tests and edit distances are computed as the code    *)
(* computes them.  Co-ordinates are integers; every comparison of the code *)
(* that involves a half, a fifth or a percentage is made on both sides     *)
(* multiplied out, which is exact.                                         *)
(***************************************************************************)
EXTENDS Integers, Sequences, FiniteSets, TLC

VARIABLES
    pc,                        \* position in parsePdf / formatAddress driver
    numPages,                  \* pdf.numPages
    pageIndex,                 \* the loop variable of parsePdf
    elements,                  \* the current page's elements (sorted, page number popped)
    applicationElementGroups,  \* the row bands of the current page
    groupIndex,                \* next band to parse (1-based)
    developmentApplications,   \* the document's result list
    origins,                   \* history: page, band, marker and parsed record of each record
    address,                   \* formatAddress: the argument
    formatted,                 \* formatAddress: the returned string
    arguments,                 \* a function called on its own: the arguments
    result,                    \* a function called on its own: what it returned
    walk,                      \* findStartElements: the locals of the loop body
    pdfUrls,                   \* main: the links to PDFs found on the page
    selectedPdfUrls,           \* main: the links chosen for this run
    database,                  \* the rows of the table [data]
    processed                  \* history: the calls of parsePdf and insertRow by main

\* The variables of the specifications of single functions.
functionVars == <<arguments, result, walk>>

\* The variables of main.
mainVars == <<pdfUrls, selectedPdfUrls, database, processed>>

vars == <<pc, numPages, pageIndex, elements, applicationElementGroups, groupIndex,
          developmentApplications, origins, address, formatted, functionVars, mainVars>>

\* main is not running: no links, no table.
OutsideMain ==
    /\ pdfUrls = <<>>
    /\ selectedPdfUrls = <<>>
    /\ database = {}
    /\ processed = <<>>

-----------------------------------------------------------------------------
(* Strings *)

\* JavaScript's undefined, where a string is expected.
Undefined == <<"undefined">>

\* The characters matched by \s that occur in the modelled texts.
WhiteSpace == {" ", "\t", "\n"}

Digits == {"0", "1", "2", "3", "4", "5", "6", "7", "8", "9"}

UpperCase == <<"A", "B", "C", "D", "E", "F", "G", "H", "I", "J", "K", "L", "M",
               "N", "O", "P", "Q", "R", "S", "T", "U", "V", "W", "X", "Y", "Z">>

LowerCase == <<"a", "b", "c", "d", "e", "f", "g", "h", "i", "j", "k", "l", "m",
               "n", "o", "p", "q", "r", "s", "t", "u", "v", "w", "x", "y", "z">>

SetMin(S) == CHOOSE m \in S : \A n \in S : m <= n

SetMax(S) == CHOOSE m \in S : \A n \in S : m >= n

toLowerCaseChar(c) ==
    IF \E i \in 1..Len(UpperCase) : UpperCase[i] = c
    THEN LowerCase[CHOOSE i \in 1..Len(UpperCase) : UpperCase[i] = c]
    ELSE c

toLowerCase(s) == IF s = <<>> THEN <<>> ELSE [i \in 1..Len(s) |-> toLowerCaseChar(s[i])]

\* String.prototype.trim
trim(s) ==
    LET keep == {i \in 1..Len(s) : s[i] \notin WhiteSpace}
    IN  IF keep = {} THEN <<>> ELSE SubSeq(s, SetMin(keep), SetMax(keep))

\* s.replace(/\s/g, "")
stripWhiteSpace(s) == SelectSeq(s, LAMBDA c : c \notin WhiteSpace)

startsWith(s, prefix) == Len(s) >= Len(prefix) /\ SubSeq(s, 1, Len(prefix)) = prefix

\* Array.prototype.join over strings.
RECURSIVE join(_, _)
join(strings, separator) ==
    IF strings = <<>> THEN <<>>
    ELSE IF Len(strings) = 1 THEN strings[1]
    ELSE strings[1] \o separator \o join(Tail(strings), separator)

\* String.prototype.split(separator) for a one-character separator: the pieces
\* between the separators (empty pieces kept).
RECURSIVE split(_, _)
split(s, separator) ==
    LET at == {i \in 1..Len(s) : s[i] = separator}
    IN  IF at = {} THEN <<s>>
        ELSE <<SubSeq(s, 1, SetMin(at) - 1)>>
                 \o split(SubSeq(s, SetMin(at) + 1, Len(s)), separator)

\* The decimal numeral of a natural number (template-literal interpolation).
RECURSIVE numeral(_)
numeral(n) ==
    LET digit == <<"0", "1", "2", "3", "4", "5", "6", "7", "8", "9">>
    IN  IF n < 10 THEN <<digit[n + 1]>> ELSE numeral(n \div 10) \o <<digit[(n % 10) + 1]>>

digitValue(c) == CHOOSE v \in 0..9 : numeral(v) = <<c>>

\* The value of a string of decimal digits.
RECURSIVE numberOf(_)
numberOf(s) ==
    IF s = <<>> THEN 0 ELSE 10 * numberOf(SubSeq(s, 1, Len(s) - 1)) + digitValue(s[Len(s)])

allDigits(s) == \A i \in 1..Len(s) : s[i] \in Digits

-----------------------------------------------------------------------------
(* The fuzzy matcher (didyoumean2, edit-distance thresholds) *)

Min2(a, b) == IF a < b THEN a ELSE b

\* One row of the Levenshtein table: the distances from a[1..i] to every prefix
\* of b, given the row for a[1..i-1].
RECURSIVE levenshteinRow(_, _, _, _)
levenshteinRow(previous, c, b, row) ==
    LET j == Len(row)
    IN  IF j > Len(b) THEN row
        ELSE levenshteinRow(previous, c, b,
                 Append(row, Min2(Min2(previous[j + 1] + 1, row[j] + 1),
                                  previous[j] + (IF b[j] = c THEN 0 ELSE 1))))

RECURSIVE levenshteinFrom(_, _, _, _)
levenshteinFrom(a, b, i, previous) ==
    IF i > Len(a) THEN previous[Len(b) + 1]
    ELSE levenshteinFrom(a, b, i + 1, levenshteinRow(previous, a[i], b, <<previous[1] + 1>>))

\* The edit distance between two strings.
levenshtein(a, b) == levenshteinFrom(a, b, 1, [j \in 1..(Len(b) + 1) |-> j - 1])

\* Runs of white space collapsed to one space (didyoumean2's trimSpace, after trim).
RECURSIVE collapseSpaces(_)
collapseSpaces(s) ==
    IF s = <<>> THEN <<>>
    ELSE IF s[1] \in WhiteSpace
         THEN IF Len(s) > 1 /\ s[2] \in WhiteSpace
              THEN collapseSpaces(Tail(s))
              ELSE <<" ">> \o collapseSpaces(Tail(s))
         ELSE <<s[1]>> \o collapseSpaces(Tail(s))

\* didyoumean2's normalisation with caseSensitive: false, trimSpace: true.
normalize(s) == toLowerCase(collapseSpaces(trim(s)))

\* didyoumean(input, matchList, { returnType: "first-closest-match",
\* thresholdType: "edit-distance", threshold }): the index in matchList of the first
\* entry at the least edit distance, when that distance is within the threshold;
\* 0 stands for null.
\* The edit distance when it can be within the threshold.  Strings whose lengths
\* differ by more than the threshold are further apart than the threshold: their
\* distance is not computed.
distanceWithin(a, b, threshold) ==
    IF Len(a) - Len(b) > threshold \/ Len(b) - Len(a) > threshold
    THEN threshold + 1
    ELSE levenshtein(a, b)

\* The index of the first of the least distances, when it is within the threshold.
firstClosestMatch(distance, threshold) ==
    LET within == {i \in DOMAIN distance : distance[i] <= threshold}
        closest == {i \in within : \A k \in within : distance[i] <= distance[k]}
    IN  IF closest = {} THEN 0 ELSE SetMin(closest)

distancesFrom(query, matchList, threshold) ==
    [i \in 1..Len(matchList) |-> distanceWithin(query, normalize(matchList[i]), threshold)]

didyoumean(input, matchList, threshold) ==
    firstClosestMatch(distancesFrom(normalize(input), matchList, threshold), threshold)

-----------------------------------------------------------------------------
(* Elements and the geometry kernel *)

\* Number.MAX_VALUE: larger than every co-ordinate of a modelled page.
MAX_VALUE == 1000000

\* An element whose text is undefined: the "nothing found" of find() and of
\* getRightElement, and the initial closestElement of getRightElement.
UndefinedElement ==
    [text |-> Undefined, x |-> MAX_VALUE, y |-> MAX_VALUE, width |-> 0, height |-> 0]

xComparer(a, b) == IF a.x > b.x THEN 1 ELSE IF a.x < b.x THEN -1 ELSE 0

yComparer(a, b) == IF a.y > b.y THEN 1 ELSE IF a.y < b.y THEN -1 ELSE 0

elementComparer(a, b) ==
    IF a.y > b.y THEN 1 ELSE IF a.y < b.y THEN -1
    ELSE IF a.x > b.x THEN 1 ELSE IF a.x < b.x THEN -1 ELSE 0

\* The call of a comparer, which sort is given by its name.
compare(comparer, a, b) ==
    IF comparer = "xComparer" THEN xComparer(a, b)
    ELSE IF comparer = "yComparer" THEN yComparer(a, b)
    ELSE elementComparer(a, b)

\* Array.prototype.sort (stable) under a comparer returning -1, 0 or 1.
sort(s, comparer) ==
    LET before(j, i) ==
            compare(comparer, s[j], s[i]) < 0 \/ (compare(comparer, s[j], s[i]) = 0 /\ j < i)
        rank == [i \in 1..Len(s) |-> Cardinality({j \in 1..Len(s) : before(j, i)}) + 1]
    IN  IF s = <<>> THEN <<>>
        ELSE [k \in 1..Len(s) |-> s[CHOOSE i \in 1..Len(s) : rank[i] = k]]

\* The texts of a list of elements.
texts(s) == IF s = <<>> THEN <<>> ELSE [i \in 1..Len(s) |-> s[i].text]

\* An element with every co-ordinate doubled (so that half a height is an integer).
doubled(e) ==
    [text |-> e.text, x |-> 2 * e.x, y |-> 2 * e.y, width |-> 2 * e.width, height |-> 2 * e.height]

doubledAll(s) == IF s = <<>> THEN <<>> ELSE [i \in 1..Len(s) |-> doubled(s[i])]

\* The percentage taken of element1's height instead of element2's.
overlapOfFirst(element1, element2) ==
    LET y1 == IF element1.y > element2.y THEN element1.y ELSE element2.y
        y2 == Min2(element1.y + element1.height, element2.y + element2.height)
    IN  IF y2 < y1 THEN [num |-> 0, den |-> 1]
        ELSE [num |-> (y2 - y1) * 100, den |-> element1.height]

\* The percentage of element2's height that overlaps element1 vertically, as the
\* fraction num / den (den = 0 is JavaScript's division by zero).
getVerticalOverlapPercentage(element1, element2) ==
    LET y1 == IF element1.y > element2.y THEN element1.y ELSE element2.y
        y2 == Min2(element1.y + element1.height, element2.y + element2.height)
    IN  IF y2 < y1 THEN [num |-> 0, den |-> 1]
        ELSE [num |-> (y2 - y1) * 100, den |-> element2.height]

\* percentage > n.  0 / 0 is NaN, which compares false.
exceeds(percentage, n) ==
    IF percentage.den = 0 THEN percentage.num > 0
    ELSE percentage.num > n * percentage.den

isVerticalOverlap(element1, element2) ==
    /\ element2.y < element1.y + element1.height
    /\ element2.y + element2.height > element1.y

RECURSIVE getRowTopFrom(_, _, _, _)
getRowTopFrom(s, startElement, i, top) ==
    IF i > Len(s) THEN top
    ELSE getRowTopFrom(s, startElement, i + 1,
             IF /\ s[i].y < startElement.y + startElement.height
                /\ s[i].y + s[i].height > startElement.y
                /\ exceeds(getVerticalOverlapPercentage(startElement, s[i]), 50)
                /\ s[i].y < top
             THEN s[i].y ELSE top)

\* getRowTop with top not initialised to startElement.y.
getRowTopUnbounded(s, startElement) == getRowTopFrom(s, startElement, 1, MAX_VALUE)

\* The highest Y co-ordinate of the elements in the same row as startElement.
getRowTop(s, startElement) == getRowTopFrom(s, startElement, 1, startElement.y)

\* intersect without the test x2 >= x1 && y2 >= y1.
intersectUnchecked(rectangle1, rectangle2) ==
    LET x1 == IF rectangle1.x > rectangle2.x THEN rectangle1.x ELSE rectangle2.x
        y1 == IF rectangle1.y > rectangle2.y THEN rectangle1.y ELSE rectangle2.y
        x2 == Min2(rectangle1.x + rectangle1.width, rectangle2.x + rectangle2.width)
        y2 == Min2(rectangle1.y + rectangle1.height, rectangle2.y + rectangle2.height)
    IN  [x |-> x1, y |-> y1, width |-> x2 - x1, height |-> y2 - y1]

intersect(rectangle1, rectangle2) ==
    LET x1 == IF rectangle1.x > rectangle2.x THEN rectangle1.x ELSE rectangle2.x
        y1 == IF rectangle1.y > rectangle2.y THEN rectangle1.y ELSE rectangle2.y
        x2 == Min2(rectangle1.x + rectangle1.width, rectangle2.x + rectangle2.width)
        y2 == Min2(rectangle1.y + rectangle1.height, rectangle2.y + rectangle2.height)
    IN  IF x2 >= x1 /\ y2 >= y1
        THEN [x |-> x1, y |-> y1, width |-> x2 - x1, height |-> y2 - y1]
        ELSE [x |-> 0, y |-> 0, width |-> 0, height |-> 0]

getArea(rectangle) == rectangle.width * rectangle.height

\* Distances are <<0, d>> for the finite number d / 4, <<1, 0>> for
\* Number.MAX_VALUE and <<2, 0>> for Infinity (the square of a difference with
\* Number.MAX_VALUE overflows).
lessThan(d1, d2) == d1[1] < d2[1] \/ (d1[1] = 0 /\ d2[1] = 0 /\ d1[2] < d2[2])

\* calculateDistance without the vertical part.
horizontalDistance(element1, element2) ==
    LET dx == element2.x - (element1.x + element1.width)
    IN  IF 5 * element2.x < 5 * (element1.x + element1.width) - element1.width
        THEN <<1, 0>>
        ELSE IF element2.x >= MAX_VALUE THEN <<2, 0>>
        ELSE <<0, 4 * dx * dx>>

\* The square of the distance from element1's right middle to element2's left middle.
calculateDistance(element1, element2) ==
    LET dx == element2.x - (element1.x + element1.width)
        dy2 == (2 * element2.y + element2.height) - (2 * element1.y + element1.height)
    IN  IF 5 * element2.x < 5 * (element1.x + element1.width) - element1.width
        THEN <<1, 0>>
        ELSE IF element2.x >= MAX_VALUE THEN <<2, 0>>
        ELSE <<0, 4 * dx * dx + dy2 * dy2>>

RECURSIVE getRightElementFrom(_, _, _, _)
getRightElementFrom(s, element, i, closestElement) ==
    IF i > Len(s) THEN closestElement
    ELSE getRightElementFrom(s, element, i + 1,
             IF /\ isVerticalOverlap(element, s[i])
                /\ exceeds(getVerticalOverlapPercentage(element, s[i]), 50)
                /\ s[i].x > element.x + element.width
                /\ s[i].x - (element.x + element.width) < 30
                /\ lessThan(calculateDistance(element, s[i]),
                            calculateDistance(element, closestElement))
             THEN s[i] ELSE closestElement)

\* The element immediately to the right of element, or UndefinedElement.
getRightElement(s, element) == getRightElementFrom(s, element, 1, UndefinedElement)

-----------------------------------------------------------------------------
(* Start markers *)

Lodgement == <<"L", "o", "d", "g", "e", "m", "e", "n", "t">>

\* The thresholds tried from the widest to the narrowest.
matchThresholdWidest(text) ==
    IF didyoumean(text, <<Lodgement>>, 2) # 0 THEN 2
    ELSE IF didyoumean(text, <<Lodgement>>, 1) # 0 THEN 1
    ELSE IF text = toLowerCase(Lodgement) THEN 0
    ELSE -1

\* The threshold at which a concatenation of 8 or 9 characters is taken for
\* "Lodgement": 0, 1 or 2, and -1 when it is not.
matchThreshold(text) ==
    IF text = toLowerCase(Lodgement) THEN 0
    ELSE IF didyoumean(text, <<Lodgement>>, 1) # 0 THEN 1
    ELSE IF didyoumean(text, <<Lodgement>>, 2) # 0 THEN 2
    ELSE -1

\* The text the walk to the right has collected: lower case, no white space.
walkText(rightElements) == toLowerCase(stripWhiteSpace(join(texts(rightElements), <<>>)))

\* withMatch without the test text.length >= 8.
withMatchOfAnyLength(matches, rightElement, text, threshold) ==
    IF threshold >= 0
    THEN Append(matches, [element |-> rightElement, threshold |-> threshold])
    ELSE matches

\* matches after a text of 8 or 9 characters has been tested at the thresholds.
withMatch(matches, rightElement, text, threshold) ==
    IF Len(text) >= 8 /\ threshold >= 0
    THEN Append(matches, [element |-> rightElement, threshold |-> threshold])
    ELSE matches

\* The do-while loop of findStartElements: the matches of the walk to the right.
\* walkRight is one iteration from its first statement, walkOn the iteration
\* after the text has been formed, walkNext its last statement and the loop test.
RECURSIVE walkRight(_, _, _, _)
walkNext(s, rightElement, rightElements, matches) ==
    IF rightElement # UndefinedElement /\ Len(rightElements) < 10
    THEN walkRight(s, rightElement, rightElements, matches)
    ELSE matches

walkOn(s, rightElement, rightElements, matches, text) ==
    IF Len(text) >= 10 THEN matches
    ELSE walkNext(s, getRightElement(s, rightElement), rightElements,
                  withMatch(matches, rightElement, text, matchThreshold(text)))

walkRight(s, rightElement, rightElements, matches) ==
    walkOn(s, rightElement, Append(rightElements, rightElement), matches,
           walkText(Append(rightElements, rightElement)))

\* matches.reduce(...): previous is <<>> (undefined) or <<match>>.  A match has no
\* text property, so comparing the text lengths of two matches with equal
\* thresholds reads a property of undefined and throws a TypeError.
RECURSIVE chooseBestMatch(_, _, _)
chooseBestMatch(matches, i, previous) ==
    IF i > Len(matches) THEN [threw |-> FALSE, match |-> previous]
    ELSE IF previous = <<>> THEN chooseBestMatch(matches, i + 1, <<matches[i]>>)
    ELSE IF matches[i].threshold < previous[1].threshold
         THEN chooseBestMatch(matches, i + 1, <<matches[i]>>)
    ELSE IF matches[i].threshold = previous[1].threshold
         THEN [threw |-> TRUE, match |-> previous]
    ELSE chooseBestMatch(matches, i + 1, previous)

\* The elements whose text starts with "l" or "L".
startCandidates(s) ==
    SelectSeq(s, LAMBDA e : startsWith(toLowerCase(trim(e.text)), <<"l">>))

\* The loop over the candidates: collectStartElements is one iteration,
\* collectBest the iteration after the walk, given its matches and the best of
\* them.
RECURSIVE collectStartElements(_, _, _, _)
collectBest(s, candidates, i, startElements, matches, best) ==
    IF matches = <<>> THEN collectStartElements(s, candidates, i + 1, startElements)
    ELSE IF best.threw THEN [threw |-> TRUE, startElements |-> startElements]
    ELSE collectStartElements(s, candidates, i + 1,
             Append(startElements, best.match[1].element))

collectStartElements(s, candidates, i, startElements) ==
    IF i > Len(candidates) THEN [threw |-> FALSE, startElements |-> startElements]
    ELSE collectBest(s, candidates, i, startElements,
                     walkRight(s, candidates[i], <<>>, <<>>),
                     chooseBestMatch(walkRight(s, candidates[i], <<>>, <<>>), 1, <<>>))

\* What findStartElements gives for the start elements collected: sorted by Y.
sortedStartElements(found) ==
    [threw |-> found.threw, startElements |-> sort(found.startElements, "yComparer")]

\* The start element of each development application on the page, in the order
\* they appear; threw when choosing a best match throws.
findStartElements(s) ==
    sortedStartElements(collectStartElements(s, startCandidates(s), 1, <<>>))

-----------------------------------------------------------------------------
(* Dates (moment, format "D/MM/YYYY", strict) *)

daysInMonth(year, month) ==
    IF month = 2
    THEN IF (year % 4 = 0 /\ year % 100 # 0) \/ year % 400 = 0 THEN 29 ELSE 28
    ELSE IF month \in {4, 6, 9, 11} THEN 30 ELSE 31

\* moment(text, "D/MM/YYYY", true): one or two digits, a slash, two digits, a
\* slash, four digits and nothing else; isValid() also wants a real calendar day.
dateOf(day, month, year) ==
    IF month \in 1..12 /\ day >= 1 /\ day <= daysInMonth(year, month)
    THEN [isValid |-> TRUE, day |-> day, month |-> month, year |-> year]
    ELSE [isValid |-> FALSE, day |-> 0, month |-> 0, year |-> 0]

dateOfParts(parts) ==
    IF /\ Len(parts) = 3
       /\ \A i \in 1..3 : allDigits(parts[i])
       /\ Len(parts[1]) \in {1, 2}
       /\ Len(parts[2]) = 2
       /\ Len(parts[3]) = 4
    THEN dateOf(numberOf(parts[1]), numberOf(parts[2]), numberOf(parts[3]))
    ELSE [isValid |-> FALSE, day |-> 0, month |-> 0, year |-> 0]

parseDate(text) == dateOfParts(split(text, "/"))

\* A numeral padded with zeros on the left to the given width.
RECURSIVE padded(_, _)
padded(digits, width) == IF Len(digits) >= width THEN digits ELSE padded(<<"0">> \o digits, width)

\* date.format("YYYY-MM-DD")
formatDate(date) ==
    padded(numeral(date.year), 4) \o <<"-">> \o padded(numeral(date.month), 2)
        \o <<"-">> \o padded(numeral(date.day), 2)

-----------------------------------------------------------------------------
(* Address normalisation *)

\* The suburb names read from suburbnames.txt by main: name, and the suburb with
\* its state and post code.
SuburbNames ==
    << [name |-> <<"H", "E", "W", "E", "T", "T">>, value |-> <<"H", "E", "W", "E", "T", "T", " ", "S", "A", " ", "5", "1", "1", "8">>],
       [name |-> <<"G", "A", "W", "L", "E", "R", " ", "B", "E", "L", "T">>, value |-> <<"G", "A", "W", "L", "E", "R", " ", "B", "E", "L", "T", " ", "S", "A", " ", "5", "1", "1", "8">>] >>

suburbKeys == [i \in 1..Len(SuburbNames) |-> SuburbNames[i].name]

\* tokens.slice(-index)
lastTokens(tokens, index) ==
    IF index >= Len(tokens) THEN tokens ELSE SubSeq(tokens, Len(tokens) - index + 1, Len(tokens))

\* tokens after tokens.splice(-index, index)
withoutLastTokens(tokens, index) ==
    IF index >= Len(tokens) THEN <<>> ELSE SubSeq(tokens, 1, Len(tokens) - index)

\* The loop over index = 1..4 with its break: the first index at which the last
\* index tokens are taken for a suburb name, with the name's index in
\* SuburbNames; index 0 when the loop ends without a match.
RECURSIVE findSuburb(_, _)
suburbAt(tokens, index, suburbNameMatch) ==
    IF suburbNameMatch # 0
    THEN [index |-> index, suburbNameMatch |-> suburbNameMatch]
    ELSE findSuburb(tokens, index + 1)

findSuburb(tokens, index) ==
    IF index > 4 THEN [index |-> 0, suburbNameMatch |-> 0]
    ELSE suburbAt(tokens, index,
                  didyoumean(join(lastTokens(tokens, index), <<" ">>), suburbKeys, 2))

\* (streetName + ((streetName === "") ? "" : ", ") + suburbName).trim()
streetAndSuburb(streetName, suburbName) ==
    trim(streetName \o (IF streetName = <<>> THEN <<>> ELSE <<",", " ">>) \o suburbName)

\* The address of the tokens, given what the loop found: the trimmed address
\* when no suburb name was found.
addressOf(trimmed, tokens, found) ==
    IF found.index = 0 THEN trimmed
    ELSE streetAndSuburb(trim(join(withoutLastTokens(tokens, found.index), <<" ">>)),
                         SuburbNames[found.suburbNameMatch].value)

formatTrimmed(trimmed, tokens) ==
    IF trimmed = <<>> THEN <<>> ELSE addressOf(trimmed, tokens, findSuburb(tokens, 1))

\* formatAddress without its first statement, address = address.trim().
formatUntrimmed(addressText) == formatTrimmed(addressText, split(addressText, " "))

\* Formats (and corrects) an address.
formatAddress(addressText) == formatTrimmed(trim(addressText), split(trim(addressText), " "))

-----------------------------------------------------------------------------
(* The record of one row band *)

CommentUrl == "mailto:light@light.sa.gov.au"

\* The url parsePdf was called with.
InformationUrl == "url"

NoDescriptionProvided ==
    <<"N", "o", " ", "D", "e", "s", "c", "r", "i", "p", "t", "i", "o", "n", " ", "P", "r", "o", "v", "i", "d", "e", "d">>

\* What parseApplicationElements returns when the band has no record.
UndefinedApplication == [applicationNumber |-> Undefined]

\* text ends with a slash followed by four digits: /\/[0-9]{4}$/
endsWithSlashAndFourDigits(text) ==
    /\ Len(text) >= 5
    /\ text[Len(text) - 4] = "/"
    /\ allDigits(SubSeq(text, Len(text) - 3, Len(text)))

\* The elements of the number in the order of the band, not sorted by X.
numberElementsUnsorted(s, startElement, applicantElement) ==
    SelectSeq(s, LAMBDA e : /\ e.x < applicantElement.x
                            /\ e.y < startElement.y + 2 * startElement.height)

\* The elements the application number is assembled from, left to right.
applicationNumberElements(s, startElement, applicantElement) ==
    sort(SelectSeq(s, LAMBDA e : /\ e.x < applicantElement.x
                                  /\ e.y < startElement.y + 2 * startElement.height),
         "xComparer")

\* The application number: the first concatenation of leading elements that ends
\* with a slash and four digits, or Undefined.
findApplicationNumber(numberElements) ==
    LET text(index) == stripWhiteSpace(join(texts(SubSeq(numberElements, 1, index)), <<>>))
        matching == {index \in 1..Len(numberElements) : endsWithSlashAndFourDigits(text(index))}
    IN  IF matching = {} THEN Undefined ELSE text(SetMin(matching))

\* The test without its last part, the overlap with the heading's column.
inDateColumnAnywhere(element, applicationElement) ==
    LET dateRectangle == [x |-> applicationElement.x, y |-> element.y,
                          width |-> applicationElement.width,
                          height |-> applicationElement.height]
    IN  /\ getArea(element) > 0
        /\ 2 * getArea(element) > getArea(dateRectangle)

\* The test for an element in the date column: a valid element of about the size
\* of the "Application" heading that lies mostly under it.
inDateColumn(element, applicationElement) ==
    LET dateRectangle == [x |-> applicationElement.x, y |-> element.y,
                          width |-> applicationElement.width,
                          height |-> applicationElement.height]
    IN  /\ getArea(element) > 0
        /\ 2 * getArea(element) > getArea(dateRectangle)
        /\ 4 * getArea(intersect(element, dateRectangle)) > 3 * getArea(element)

\* The first of the elements of s at the indices found, or UndefinedElement.
firstElement(s, found) == IF found = {} THEN UndefinedElement ELSE s[SetMin(found)]

findApplicationDateElement(s, applicationElement) ==
    firstElement(s, {i \in 1..Len(s) : inDateColumn(s[i], applicationElement)})

\* The first valid date below the application date, falling back to the
\* application date element.
orElse(found, fallback) == IF found = UndefinedElement THEN fallback ELSE found

findReceivedDateElement(s, applicationElement, applicationDateElement) ==
    orElse(firstElement(s, {i \in 1..Len(s) :
               /\ inDateColumn(s[i], applicationElement)
               /\ s[i].y > applicationDateElement.y + applicationDateElement.height
               /\ parseDate(trim(s[i].text)).isValid}),
           applicationDateElement)

\* The date the record is given: parsed from the application date element.
receivedDateOf(applicationDateElement, receivedDateElement) ==
    parseDate(trim(applicationDateElement.text))

\* The address without the test against the "Proposal" heading.
addressTextToTheRight(s, applicationDateElement, proposalElement) ==
    join(texts(sort(SelectSeq(s, LAMBDA e :
            /\ e.x > applicationDateElement.x + applicationDateElement.width
            /\ exceeds(getVerticalOverlapPercentage(applicationDateElement, e), 50)), "xComparer")), <<>>)

\* The address: the texts right of the application date, on its line and left of
\* the "Proposal" heading, joined without a separator.
addressText(s, applicationDateElement, proposalElement) ==
    join(texts(sort(SelectSeq(s, LAMBDA e :
            /\ e.x > applicationDateElement.x + applicationDateElement.width
            /\ exceeds(getVerticalOverlapPercentage(applicationDateElement, e), 50)
            /\ 2 * e.x < 2 * proposalElement.x - proposalElement.height), "xComparer")), <<>>)

\* The elements from the "Proposal" heading less half its height on, those at
\* that X co-ordinate with them.
descriptionElementsFromLine(s, proposalElement, referralsElement) ==
    SelectSeq(s, LAMBDA e : /\ 2 * e.x >= 2 * proposalElement.x - proposalElement.height
                            /\ e.x < referralsElement.x)

descriptionElements(s, proposalElement, referralsElement) ==
    SelectSeq(s, LAMBDA e : /\ 2 * e.x > 2 * proposalElement.x - proposalElement.height
                            /\ e.x < referralsElement.x)

\* The description: the texts joined in order, with a space at each new line.
RECURSIVE descriptionFrom(_, _, _)
descriptionFrom(s, i, description) ==
    IF i > Len(s) THEN description
    ELSE descriptionFrom(s, i + 1,
             description
                 \o (IF i > 1 /\ 2 * s[i].y > 2 * s[i - 1].y + s[i].height THEN <<" ">> ELSE <<>>)
                 \o s[i].text)

\* The description without the test for the "Referrals/" heading.
descriptionUnguarded(s, proposalElement, referralsElement) ==
    descriptionFrom(descriptionElements(s, proposalElement, referralsElement), 1, <<>>)

descriptionText(s, proposalElement, referralsElement) ==
    IF referralsElement # UndefinedElement
    THEN descriptionFrom(descriptionElements(s, proposalElement, referralsElement), 1, <<>>)
    ELSE <<>>

\* The object parseApplicationElements returns (lines 289-297).
applicationOf(applicationNumber, formattedAddress, description, receivedDate) ==
    [applicationNumber |-> applicationNumber,
     address |-> formattedAddress,
     description |-> IF trim(description) = <<>> THEN NoDescriptionProvided ELSE description,
     informationUrl |-> InformationUrl,
     commentUrl |-> CommentUrl,
     receivedDate |-> IF receivedDate.isValid THEN formatDate(receivedDate) ELSE <<>>]

\* parseApplicationElements without its two early returns.
parsedUnchecked(s, applicationNumber, applicationDateElement, applicationElement, proposalElement, referralsElement) ==
    applicationOf(applicationNumber,
        formatAddress(addressText(s, applicationDateElement, proposalElement)),
        descriptionText(s, proposalElement, referralsElement),
        receivedDateOf(applicationDateElement, applicationDateElement))

\* parseApplicationElements from the application number and the application
\* date element it has found (lines 201-297).
parsedApplication(s, applicationNumber, applicationDateElement, applicationElement, proposalElement, referralsElement) ==
    IF applicationNumber = Undefined THEN UndefinedApplication
    ELSE IF applicationDateElement = UndefinedElement THEN UndefinedApplication
    ELSE applicationOf(applicationNumber,
             formatAddress(addressText(s, applicationDateElement, proposalElement)),
             descriptionText(s, proposalElement, referralsElement),
             receivedDateOf(applicationDateElement,
                 findReceivedDateElement(s, applicationElement, applicationDateElement)))

\* Parses the details from the elements of a single development application.
parseApplicationElements(s, startElement, applicantElement, applicationElement, proposalElement, referralsElement) ==
    parsedApplication(s,
        findApplicationNumber(applicationNumberElements(s, startElement, applicantElement)),
        findApplicationDateElement(s, applicationElement),
        applicationElement, proposalElement, referralsElement)

-----------------------------------------------------------------------------
(* parsePdf: the pages of one document *)

\* elements.find(element => element.text.trim() === label), or UndefinedElement.
findHeading(s, label) == firstElement(s, {i \in 1..Len(s) : trim(s[i].text) = label})

applicantElementOf(s) == findHeading(s, <<"A", "p", "p", "l", "i", "c", "a", "n", "t">>)

applicationElementOf(s) == findHeading(s, <<"A", "p", "p", "l", "i", "c", "a", "t", "i", "o", "n">>)

proposalElementOf(s) == findHeading(s, <<"P", "r", "o", "p", "o", "s", "a", "l">>)

referralsElementOf(s) == findHeading(s, <<"R", "e", "f", "e", "r", "r", "a", "l", "s", "/">>)

\* /[0-9]+/.test(text) && Number(text) < 1000, for texts without signs, points
\* and exponents: Number() of anything but (padded) digits is then NaN.
isPageNumber(text) ==
    /\ \E i \in 1..Len(text) : text[i] \in Digits
    /\ allDigits(trim(text))
    /\ numberOf(trim(text)) < 1000

\* The elements of a page: sorted by Y and then X, the page number ignored.
popPageNumber(sorted) ==
    IF isPageNumber(sorted[Len(sorted)].text)
    THEN SubSeq(sorted, 1, Len(sorted) - 1)
    ELSE sorted

pageElements(items) == popPageNumber(sort(items, "elementComparer"))

\* The start element raised by half its height, in doubled co-ordinates.
raisedStartElement(startElement) ==
    [doubled(startElement) EXCEPT !.y = 2 * startElement.y - startElement.height]

\* Twice the top of the row band of startElements[index].
rowTop2(s, startElements, index) ==
    getRowTop(doubledAll(s), raisedStartElement(startElements[index]))

\* The top of the next row band, or Number.MAX_VALUE after the last band.
nextRowTop(s, startElements, index) ==
    IF index + 1 <= Len(startElements) THEN getRowTop(s, startElements[index + 1])
    ELSE MAX_VALUE

\* elements.filter(element => element.y >= rowTop && element.y + element.height
\* < nextRowTop), the row top given doubled.
between(s, top2, nextTop) ==
    SelectSeq(s, LAMBDA e : 2 * e.y >= top2 /\ e.y + e.height < nextTop)

\* The elements between the top of a row and the top of the next row.
groupElements(s, startElements, index) ==
    between(s, rowTop2(s, startElements, index), nextRowTop(s, startElements, index))

\* The row bands of a page, one for each start element.
groupsOf(s, startElements) ==
    IF startElements = <<>> THEN <<>>
    ELSE [index \in 1..Len(startElements) |->
             [startElement |-> startElements[index],
              elements |-> groupElements(s, startElements, index)]]

\* "N (suffix)" for suffix > 0, N itself for 0.
suffixed(applicationNumber, suffix) ==
    IF suffix = 0 THEN applicationNumber
    ELSE applicationNumber \o <<" ", "(">> \o numeral(suffix) \o <<")">>

\* The comparison with the description and the received date left out.
differsInAddress(other, application) == other.address # application.address

differs(other, application) ==
    \/ other.address # application.address
    \/ other.description # application.description
    \/ other.receivedDate # application.receivedDate

\* The test without the comparison of the contents.
clashesWithAny(applications, application) ==
    \E i \in 1..Len(applications) :
        applications[i].applicationNumber = application.applicationNumber

\* The test of the while loop (lines 454-459): some record of the list has the
\* number of the application and differs from it.
clashes(applications, application) ==
    \E i \in 1..Len(applications) :
        /\ applications[i].applicationNumber = application.applicationNumber
        /\ differs(applications[i], application)

\* The while loop left out: no suffix is ever added.
withoutSuffix(applications, application, suffix) == suffix

\* The while loop that adds a unique suffix: the suffix it stops at.
RECURSIVE uniqueSuffix(_, _, _)
uniqueSuffix(applications, application, suffix) ==
    IF \E i \in 1..Len(applications) :
           /\ applications[i].applicationNumber = suffixed(application.applicationNumber, suffix)
           /\ differs(applications[i], application)
    THEN uniqueSuffix(applications, application, suffix + 1)
    ELSE suffix

\* unshift in the place of push: the record is put in front.
unshifted(applications, application) ==
    <<[application EXCEPT !.applicationNumber =
           suffixed(application.applicationNumber,
                    uniqueSuffix(applications, application, 0))]>> \o applications

\* developmentApplications after the record of one band has been pushed.
pushed(applications, application) ==
    Append(applications,
           [application EXCEPT !.applicationNumber =
                suffixed(application.applicationNumber,
                         uniqueSuffix(applications, application, 0))])

\* The text items of the next page arrive (the awaits of lines 368-373).
GetPage(items) ==
    /\ pc = "page"
    /\ pageIndex < numPages
    /\ pc' = "items"
    /\ elements' = items
    /\ UNCHANGED <<numPages, pageIndex, applicationElementGroups, groupIndex,
                   developmentApplications, origins, address, formatted, functionVars, mainVars>>

\* The rest of the iteration up to the row bands (lines 386-442).  Reading the
\* text of the last element of a page without elements, and choosing between two
\* marker matches of equal threshold, throw a TypeError out of parsePdf.  The
\* elements and the bands are local to the iteration: a page that is left
\* leaves none behind.
GroupPage ==
    /\ pc = "items"
    /\ UNCHANGED <<numPages, developmentApplications, origins, address, formatted, functionVars, mainVars>>
    /\ IF elements = <<>>
       THEN /\ pc' = "thrown"
            /\ UNCHANGED <<pageIndex, elements, applicationElementGroups, groupIndex>>
       ELSE \E s \in {pageElements(elements)} :
            \E found \in {findStartElements(s)} :
                IF \/ applicantElementOf(s) = UndefinedElement
                   \/ applicationElementOf(s) = UndefinedElement
                   \/ proposalElementOf(s) = UndefinedElement
                THEN /\ pc' = "page"
                     /\ pageIndex' = pageIndex + 1
                     /\ elements' = <<>>
                     /\ UNCHANGED <<applicationElementGroups, groupIndex>>
                ELSE IF found.threw
                THEN /\ pc' = "thrown"
                     /\ elements' = s
                     /\ UNCHANGED <<pageIndex, applicationElementGroups, groupIndex>>
                ELSE IF found.startElements = <<>>
                THEN /\ pc' = "page"
                     /\ pageIndex' = pageIndex + 1
                     /\ elements' = <<>>
                     /\ UNCHANGED <<applicationElementGroups, groupIndex>>
                ELSE /\ pc' = "group"
                     /\ elements' = s
                     /\ applicationElementGroups' = groupsOf(s, found.startElements)
                     /\ groupIndex' = 1
                     /\ UNCHANGED pageIndex

\* One iteration of the loop over the row bands (lines 449-463).  origins keeps,
\* for each record pushed, the page and the band it was parsed from, the Y
\* co-ordinate of the band's start element and the record as it was parsed.
ParseGroup ==
    /\ pc = "group"
    /\ \E developmentApplication \in
               {parseApplicationElements(applicationElementGroups[groupIndex].elements,
                    applicationElementGroups[groupIndex].startElement,
                    applicantElementOf(elements), applicationElementOf(elements),
                    proposalElementOf(elements), referralsElementOf(elements))} :
           IF developmentApplication # UndefinedApplication
           THEN /\ developmentApplications' = pushed(developmentApplications, developmentApplication)
                /\ origins' = Append(origins,
                       [pageIndex |-> pageIndex, groupIndex |-> groupIndex,
                        y |-> applicationElementGroups[groupIndex].startElement.y,
                        developmentApplication |-> developmentApplication])
           ELSE UNCHANGED <<developmentApplications, origins>>
    /\ IF groupIndex < Len(applicationElementGroups)
       THEN /\ groupIndex' = groupIndex + 1
            /\ UNCHANGED <<pc, pageIndex, elements, applicationElementGroups>>
       ELSE /\ pc' = "page"
            /\ pageIndex' = pageIndex + 1
            /\ groupIndex' = 0
            /\ elements' = <<>>
            /\ applicationElementGroups' = <<>>
    /\ UNCHANGED <<numPages, address, formatted, functionVars, mainVars>>

\* return developmentApplications (line 466).
Return ==
    /\ pc = "page"
    /\ pageIndex = numPages
    /\ pc' = "returned"
    /\ UNCHANGED <<numPages, pageIndex, elements, applicationElementGroups, groupIndex,
                   developmentApplications, origins, address, formatted, functionVars, mainVars>>

-----------------------------------------------------------------------------
(* The pages the document is drawn from *)

Element(text, x, y, width, height) ==
    [text |-> text, x |-> x, y |-> y, width |-> width, height |-> height]

\* The column headings, at the top of the page; a heading kind leaves one out.
HeadingKinds == {"all", "noReferrals", "noApplicant", "noApplication", "noProposal"}

Headings(kind) ==
    (IF kind = "noApplicant" THEN <<>> ELSE <<Element(<<"A", "p", "p", "l", "i", "c", "a", "n", "t">>, 20, 0, 9, 2)>>)
    \o (IF kind = "noApplication" THEN <<>> ELSE <<Element(<<"A", "p", "p", "l", "i", "c", "a", "t", "i", "o", "n">>, 30, 0, 10, 2)>>)
    \o (IF kind = "noProposal" THEN <<>> ELSE <<Element(<<"P", "r", "o", "p", "o", "s", "a", "l", " ">>, 60, 0, 8, 2)>>)
    \o (IF kind = "noReferrals" THEN <<>> ELSE <<Element(<<"R", "e", "f", "e", "r", "r", "a", "l", "s", "/">>, 80, 0, 10, 2)>>)

\* The rows of a page start at these Y co-ordinates.
RowTops == <<4, 10>>

RowKinds == {"plain", "other", "noNumber", "noDate", "tall"}

\* One application's row at Y co-ordinate y, in the order of the PDF's content
\* stream (right to left).  Every row has the marker and a number left of the
\* "Applicant" column; "other" has another description and a received date below
\* the application date; "noNumber" has a number without its year, "noDate"
\* nothing in the date column; "tall" has a marker of twice the height and, right
\* of all the columns, a short note just above the row and a long one reaching
\* down to its top.
Row(kind, y) ==
    (IF kind = "tall"
     THEN <<Element(<<"x">>, 92, y - 4, 1, 4), Element(<<"y">>, 96, y - 2, 1, 1)>> ELSE <<>>)
    \o (IF kind = "other"
        THEN <<Element(<<"B", "a", "r", "n">>, 60, y, 5, 2), Element(<<"2", "/", "0", "2", "/", "2", "0", "1", "8">>, 30, y + 3, 8, 2)>>
        ELSE <<Element(<<"S", "h", "e", "d">>, 60, y, 5, 2)>>)
    \o <<Element(<<"7", " ", "R", "D", " ", "H", "E", "W", "I", "T", "T", " ">>, 40, y, 12, 2)>>
    \o (IF kind = "noDate" THEN <<>> ELSE <<Element(<<"1", "/", "0", "2", "/", "2", "0", "1", "8">>, 30, y, 8, 2)>>)
    \o <<Element(Lodgement, 8, y, 9, IF kind = "tall" THEN 4 ELSE 2)>>
    \o <<Element(IF kind = "noNumber" THEN <<"1", "/", "2", "0", "1">> ELSE <<"1", "/", "2", "0", "1", "8">>, 0, y, 6, 2)>>

\* The page number at the foot of a page.
PageNumber == Element(<<"3">>, 50, 40, 1, 2)

RECURSIVE Rows(_, _)
Rows(kinds, i) ==
    IF i > Len(kinds) THEN <<>> ELSE Rows(kinds, i + 1) \o Row(kinds[i], RowTops[i])

\* The choices of at most n rows of the given kinds.
RowChoices(kinds, n) == UNION {[1..k -> kinds] : k \in 0..n}

Page(kinds, heading) == <<PageNumber>> \o Rows(kinds, 1) \o Headings(heading)

\* The pages: one without any text; every choice of rows under all the
\* headings; rows with and without a record under all but "Referrals/"; at most
\* one row under the other headings.
Pages ==
    {<<>>}
    \cup {Page(kinds, "all") : kinds \in RowChoices(RowKinds, Len(RowTops))}
    \cup {Page(kinds, "noReferrals") :
              kinds \in RowChoices({"plain", "other", "noNumber"}, Len(RowTops))}
    \cup {Page(kinds, heading) :
              kinds \in RowChoices({"plain"}, 1),
              heading \in HeadingKinds \ {"all", "noReferrals"}}

-----------------------------------------------------------------------------
(* The specification of parsePdf *)

\* At most this many pages in the document.
MaxPages == 2

\* No function has been called on its own.
InitFunctions ==
    /\ OutsideMain
    /\ arguments = <<>>
    /\ result = <<>>
    /\ walk = <<>>

Init ==
    /\ InitFunctions
    /\ pc = "page"
    /\ numPages \in 0..MaxPages
    /\ pageIndex = 0
    /\ elements = <<>>
    /\ applicationElementGroups = <<>>
    /\ groupIndex = 0
    /\ developmentApplications = <<>>
    /\ origins = <<>>
    /\ address = <<>>
    /\ formatted = <<>>

Next ==
    \/ \E items \in Pages : GetPage(items)
    \/ GroupPage
    \/ ParseGroup
    \/ Return

Spec == Init /\ [][Next]_vars

-----------------------------------------------------------------------------
(* The specification of formatAddress *)

\* The addresses formatAddress is called with are put together from white
\* space, a street, a suburb as the documents spell it and the reference some
\* addresses end with, whole or cut short.
Pads == {<<>>, <<" ">>}

Streets == {<<>>, <<"7", " ", "R", "D">>, <<"7", " ", "A", " ", "B", " ", "R", "D">>}

Suburbs == {<<>>, <<"H", "E", "W", "E", "T", "T">>, <<"H", "E", "W", "I", "T", "T">>, <<"H", "e", "w", "e", "t", "t">>, <<"G", "A", "W", "L", "E", "R", " ", "B", "E", "L", "T">>, <<"G", "A", "W", "L", "R", " ", "B", "E", "L", "T">>, <<"X", "Y", "Z">>}

References == {<<>>, <<"(", "3", ")">>, <<"(", "3", "7">>}

\* The parts that are not empty, with a space between them.
spaced(parts) == join(SelectSeq(parts, LAMBDA part : part # <<>>), <<" ">>)

Address(left, street, suburb, reference, right) ==
    left \o spaced(<<street, suburb, reference>>) \o right

Addresses ==
    {Address(left, street, suburb, reference, right) :
         left \in Pads, street \in Streets, suburb \in Suburbs,
         reference \in References, right \in Pads}

InitAddr ==
    /\ InitFunctions
    /\ pc = "address"
    /\ address \in Addresses
    /\ formatted = <<>>
    /\ numPages = 0
    /\ pageIndex = 0
    /\ elements = <<>>
    /\ applicationElementGroups = <<>>
    /\ groupIndex = 0
    /\ developmentApplications = <<>>
    /\ origins = <<>>

\* address = formatAddress(address)
FormatAddress ==
    /\ pc = "address"
    /\ formatted' = formatAddress(address)
    /\ pc' = "formatted"
    /\ UNCHANGED <<numPages, pageIndex, elements, applicationElementGroups, groupIndex,
                   developmentApplications, origins, address, functionVars, mainVars>>

NextAddr == FormatAddress

SpecAddr == InitAddr /\ [][NextAddr]_vars

-----------------------------------------------------------------------------
(* The specification of the functions of two rectangles *)

\* The co-ordinates of a rectangle are at most this.
MaxCoordinate == 2

\* The width and the height of a rectangle are at most this.
MaxSize == 2

Rectangles ==
    [x : 0..MaxCoordinate, y : 0..MaxCoordinate, width : 0..MaxSize, height : 0..MaxSize]

InitRect ==
    /\ OutsideMain
    /\ pc = "rectangles"
    /\ arguments \in Rectangles \X Rectangles
    /\ result = <<>>
    /\ walk = <<>>
    /\ numPages = 0
    /\ pageIndex = 0
    /\ elements = <<>>
    /\ applicationElementGroups = <<>>
    /\ groupIndex = 0
    /\ developmentApplications = <<>>
    /\ origins = <<>>
    /\ address = <<>>
    /\ formatted = <<>>

\* intersect(rectangle1, rectangle2) and intersect(rectangle2, rectangle1)
Intersect ==
    /\ pc = "rectangles"
    /\ result' = <<intersect(arguments[1], arguments[2]), intersect(arguments[2], arguments[1])>>
    /\ pc' = "intersect"
    /\ UNCHANGED <<numPages, pageIndex, elements, applicationElementGroups, groupIndex,
                   developmentApplications, origins, address, formatted, arguments, walk, mainVars>>

\* getVerticalOverlapPercentage(element1, element2)
GetVerticalOverlapPercentage ==
    /\ pc = "rectangles"
    /\ result' = getVerticalOverlapPercentage(arguments[1], arguments[2])
    /\ pc' = "getVerticalOverlapPercentage"
    /\ UNCHANGED <<numPages, pageIndex, elements, applicationElementGroups, groupIndex,
                   developmentApplications, origins, address, formatted, arguments, walk, mainVars>>

NextRect == Intersect \/ GetVerticalOverlapPercentage

SpecRect == InitRect /\ [][NextRect]_vars

-----------------------------------------------------------------------------
(* The specification of the functions of a page's elements and one element *)

\* At most this many elements on the page.
MaxElements == 2

\* Elements next to each other, overlapping, 29 and 30 to the right.
Columns == {<<0, 1>>, <<0, 2>>, <<2, 1>>, <<2, 2>>, <<31, 1>>, <<31, 2>>}

\* Elements of a row, half a row higher, of more than twice the height and a
\* row lower.
Spans == {<<2, 3>>, <<1, 3>>, <<0, 7>>, <<4, 3>>}

\* The pages are lists of these, sorted as parsePdf sorts them.
Fragments ==
    {Element(<<"a">>, column[1], span[1], column[2], span[2]) :
         column \in Columns, span \in Spans}

InitRow ==
    /\ OutsideMain
    /\ pc = "elements"
    /\ elements \in {s \in UNION {[1..n -> Fragments] : n \in 0..MaxElements} :
                          sort(s, "elementComparer") = s}
    /\ arguments \in {<<element>> : element \in Fragments}
    /\ result = <<>>
    /\ walk = <<>>
    /\ numPages = 0
    /\ pageIndex = 0
    /\ applicationElementGroups = <<>>
    /\ groupIndex = 0
    /\ developmentApplications = <<>>
    /\ origins = <<>>
    /\ address = <<>>
    /\ formatted = <<>>

\* getRightElement(elements, element)
GetRightElement ==
    /\ pc = "elements"
    /\ result' = getRightElement(elements, arguments[1])
    /\ pc' = "getRightElement"
    /\ UNCHANGED <<numPages, pageIndex, elements, applicationElementGroups, groupIndex,
                   developmentApplications, origins, address, formatted, arguments, walk, mainVars>>

\* getRowTop(elements, startElement)
GetRowTop ==
    /\ pc = "elements"
    /\ result' = getRowTop(elements, arguments[1])
    /\ pc' = "getRowTop"
    /\ UNCHANGED <<numPages, pageIndex, elements, applicationElementGroups, groupIndex,
                   developmentApplications, origins, address, formatted, arguments, walk, mainVars>>

NextRow == GetRightElement \/ GetRowTop

SpecRow == InitRow /\ [][NextRow]_vars

-----------------------------------------------------------------------------
(* The specification of the walk to the right in findStartElements *)

\* At most this many elements of white space after the first element of a row.
MaxBlanks == 11

\* The texts of the elements of a row: "Lodgement" whole, cut in two, misspelt,
\* too short and too long.
Pieces ==
    {<<<<"L", "o", "d", "g", "e", "m", "e", "n", "t">>>>, <<<<"L", "o", "d", "g", "e">>, <<"m", "e", "n", "t">>>>, <<<<"L", "o", "d", "g", "e", "m", "e", "n">>, <<"t">>>>, <<<<"L", "o", "d", "g", "e", "m", "e", "n">>, <<"x">>>>,
     <<<<"L", "o", "d", "g", "m", "e", "n", "t">>, <<"s">>>>, <<<<"L", "o", "d", "g", "m", "e", "n">>, <<"t">>>>, <<<<"L", "a", "d", "g", "x", "m", "e", "n", "t">>>>, <<<<"L", "x", "d", "g", "x", "m", "x", "n", "t">>>>,
     <<<<"L", "o", "d", "g", "e", "m", "e", "n", "t">>, <<"s">>>>, <<<<"L", "o", "d", "g", "e", "m", "e", "n", "t", "s">>>>, <<<<"L">>>>}

\* pieces with a number of elements of white space after the first.
blanked(pieces, blanks) ==
    <<pieces[1]>> \o [i \in 1..blanks |-> <<" ">>] \o SubSeq(pieces, 2, Len(pieces))

\* The elements of a row: 5 wide and 5 apart, and 35 apart after the element
\* numbered gap.
WalkRow(rowTexts, gap) ==
    [i \in 1..Len(rowTexts) |->
        Element(rowTexts[i], 10 * i + (IF gap > 0 /\ i > gap THEN 30 ELSE 0), 0, 5, 2)]

\* A row lower on the page that starts with an "L" as well.
OtherRow == <<Element(<<"L", "o", "t">>, 10, 10, 5, 2), Element(<<"5">>, 20, 10, 5, 2)>>

\* The pages, their elements sorted as parsePdf sorts them.
WalkPages ==
    {WalkRow(blanked(pieces, blanks), gap) \o OtherRow :
         pieces \in Pieces, blanks \in 0..MaxBlanks, gap \in 0..2}

InitWalk ==
    /\ OutsideMain
    /\ pc = "walk"
    /\ elements \in WalkPages
    /\ \E i \in 1..Len(startCandidates(elements)) :
           walk = [rightElement |-> startCandidates(elements)[i],
                   rightElements |-> <<>>, matches |-> <<>>]
    /\ arguments = <<>>
    /\ result = <<>>
    /\ numPages = 0
    /\ pageIndex = 0
    /\ applicationElementGroups = <<>>
    /\ groupIndex = 0
    /\ developmentApplications = <<>>
    /\ origins = <<>>
    /\ address = <<>>
    /\ formatted = <<>>

\* One iteration of the do-while loop (lines 317-333).
Walk ==
    /\ pc = "walk"
    /\ \E text \in {walkText(Append(walk.rightElements, walk.rightElement))} :
       \E next \in {getRightElement(elements, walk.rightElement)} :
           IF Len(text) >= 10
           THEN /\ walk' = [walk EXCEPT !.rightElements = Append(@, walk.rightElement)]
                /\ pc' = "walked"
           ELSE /\ walk' = [rightElement |-> next,
                            rightElements |-> Append(walk.rightElements, walk.rightElement),
                            matches |-> withMatch(walk.matches, walk.rightElement, text,
                                                  matchThreshold(text))]
                /\ pc' = IF next # UndefinedElement /\ Len(walk.rightElements) + 1 < 10
                         THEN "walk" ELSE "walked"
    /\ UNCHANGED <<numPages, pageIndex, elements, applicationElementGroups, groupIndex,
                   developmentApplications, origins, address, formatted, arguments, result, mainVars>>

\* The choice of the best match (lines 337-343): result is the element pushed
\* to startElements.
Reduce ==
    /\ pc = "walked"
    /\ \E best \in {chooseBestMatch(walk.matches, 1, <<>>)} :
           IF walk.matches = <<>> THEN pc' = "none" /\ UNCHANGED result
           ELSE IF best.threw THEN pc' = "thrown" /\ UNCHANGED result
           ELSE pc' = "pushed" /\ result' = best.match[1].element
    /\ UNCHANGED <<numPages, pageIndex, elements, applicationElementGroups, groupIndex,
                   developmentApplications, origins, address, formatted, arguments, walk, mainVars>>

NextWalk == Walk \/ Reduce

SpecWalk == InitWalk /\ [][NextWalk]_vars

\* The loop body is a step of a synchronous call: nothing keeps it from being
\* taken.  This is WF_vars(Walk) written out, Walk being enabled, and changing
\* walk, exactly when pc = "walk".
SpecWalkFair == SpecWalk /\ ([]<>(pc # "walk") \/ []<><<Walk>>_vars)

-----------------------------------------------------------------------------
(* The specification of parseApplicationElements *)

\* The start element of the row band: the band starts at Y co-ordinate 4 and
\* its second line at 7.
BandStart == Element(Lodgement, 8, 4, 9, 2)

\* What the band has left of the "Applicant" heading besides the start
\* element: the number whole, in two elements, with a digit too many, followed
\* by another year, with its year higher on the page, with white space, below
\* the lines of the number, and right of the start element.
NumberParts ==
    {<<Element(<<"1", "/", "2", "0", "1", "8">>, 0, 4, 6, 2)>>,
     <<Element(<<"1", "/">>, 0, 4, 2, 2), Element(<<"2", "0", "1", "8">>, 4, 4, 4, 2)>>,
     <<Element(<<"1", "/", "2", "0", "1", "8", "9">>, 0, 4, 7, 2)>>,
     <<Element(<<"1", "/", "2", "0", "1", "8">>, 0, 4, 6, 2), Element(<<"/", "2", "0", "1", "9">>, 0, 7, 6, 2)>>,
     <<Element(<<"2", "0", "1", "8">>, 4, 3, 4, 2), Element(<<"1", "/">>, 0, 4, 2, 2)>>,
     <<Element(<<"1", " ", "/", "2", "0", " ", "1", "8">>, 0, 4, 8, 2)>>,
     <<Element(<<"1", "/", "2", "0", "1", "8">>, 0, 8, 6, 2)>>,
     <<Element(<<"1", "/", "2", "0", "1", "8">>, 17, 5, 2, 2)>>}

\* What the band has under the "Application" heading on its first line:
\* nothing, a date, an element of half the area of the heading, an element
\* three quarters under the heading, and one without height.
DateParts ==
    {<<>>,
     <<Element(<<"1", "/", "0", "2", "/", "2", "0", "1", "8">>, 30, 4, 8, 2)>>,
     <<Element(<<"3", "/", "0", "2", "/", "2", "0", "1", "8">>, 30, 4, 5, 2)>>,
     <<Element(<<"4", "/", "0", "2", "/", "2", "0", "1", "8">>, 28, 4, 8, 2)>>,
     <<Element(<<"5", "/", "0", "2", "/", "2", "0", "1", "8">>, 30, 4, 8, 0)>>}

\* And on its second line.
SecondDateParts == {<<>>, <<Element(<<"2", "/", "0", "2", "/", "2", "0", "1", "8">>, 30, 7, 8, 2)>>}

\* What the band has from the "Proposal" heading on: nothing, one element, a
\* second line, an element half a height lower, an element half the height of
\* the heading left of the heading, and elements just left of, and at, the
\* "Referrals/" heading.
ProposalParts ==
    {<<>>,
     <<Element(<<"S", "h", "e", "d">>, 60, 4, 4, 2)>>,
     <<Element(<<"S", "h", "e", "d">>, 60, 4, 4, 2), Element(<<"B", "a", "r", "n">>, 60, 7, 4, 2)>>,
     <<Element(<<"S", "h", "e", "d">>, 60, 4, 4, 2), Element(<<"x">>, 70, 5, 1, 2)>>,
     <<Element(<<"B", "i", "g">>, 59, 4, 1, 2), Element(<<"S", "h", "e", "d">>, 60, 4, 4, 2)>>,
     <<Element(<<"S", "h", "e", "d">>, 79, 4, 1, 2), Element(<<"B", "a", "r", "n">>, 80, 4, 4, 2)>>}

\* The address of the band.
AddressPart == <<Element(<<"7", " ", "R", "D">>, 40, 4, 4, 2)>>

\* The bands, their elements in the order parsePdf has sorted them in.
Bands ==
    {sort(<<BandStart>> \o number \o date \o second \o AddressPart \o proposal,
          "elementComparer") :
         number \in NumberParts, date \in DateParts, second \in SecondDateParts,
         proposal \in ProposalParts}

\* The arguments of parseApplicationElements besides the band: the start
\* element and the four headings, with and without "Referrals/".
BandArguments ==
    {<<BandStart, applicantElementOf(Headings(heading)), applicationElementOf(Headings(heading)),
       proposalElementOf(Headings(heading)), referralsElementOf(Headings(heading))>> :
         heading \in {"all", "noReferrals"}}

InitBand ==
    /\ OutsideMain
    /\ pc = "band"
    /\ elements \in Bands
    /\ arguments \in BandArguments
    /\ result = <<>>
    /\ walk = <<>>
    /\ numPages = 0
    /\ pageIndex = 0
    /\ applicationElementGroups = <<>>
    /\ groupIndex = 0
    /\ developmentApplications = <<>>
    /\ origins = <<>>
    /\ address = <<>>
    /\ formatted = <<>>

\* parseApplicationElements(elements, startElement, applicantElement,
\* applicationElement, proposalElement, referralsElement): result is what it
\* returns, with the application date element it has found.
ParseApplicationElements ==
    /\ pc = "band"
    /\ result' = [developmentApplication |->
                      parseApplicationElements(elements, arguments[1], arguments[2],
                                               arguments[3], arguments[4], arguments[5]),
                  applicationDateElement |->
                      findApplicationDateElement(elements, arguments[3])]
    /\ pc' = "parseApplicationElements"
    /\ UNCHANGED <<numPages, pageIndex, elements, applicationElementGroups, groupIndex,
                   developmentApplications, origins, address, formatted, arguments, walk, mainVars>>

NextBand == ParseApplicationElements

SpecBand == InitBand /\ [][NextBand]_vars

-----------------------------------------------------------------------------
(* main: the links, the documents chosen and the table *)

\* String.includes
includes(s, part) ==
    \E i \in 1..(Len(s) - Len(part) + 1) : SubSeq(s, i, i + Len(part) - 1) = part

\* Array.reverse
reverse(s) == [i \in 1..Len(s) |-> s[Len(s) + 1 - i]]

\* array[index] for an index counted from 0: undefined outside the array.
at(s, index) == IF index + 1 \in 1..Len(s) THEN s[index + 1] ELSE Undefined

\* The page the links are on, so far as a link to one of its files goes.
DevelopmentApplicationsUrl == <<"/">>

\* new urlparser.URL(href, DevelopmentApplicationsUrl).href, for the name of a
\* file next to the page.
hrefOf(href) == DevelopmentApplicationsUrl \o href

\* The range with its upper end included.
getRandomInclusive(minimum, maximum) == minimum..maximum

\* The integers getRandom(minimum, maximum) can return, for integer arguments:
\* Math.random() is at least 0 and less than 1.
getRandom(minimum, maximum) == minimum..(maximum - 1)

\* The loop over the links of the page (lines 503-508): the links to PDFs, each
\* once.
RECURSIVE pdfUrlsFrom(_, _, _)
pdfUrlsFrom(hrefs, i, urls) ==
    IF i > Len(hrefs) THEN urls
    ELSE IF /\ includes(toLowerCase(hrefOf(hrefs[i])), <<".", "p", "d", "f">>)
            /\ ~\E k \in 1..Len(urls) : urls[k] = hrefOf(hrefs[i])
         THEN pdfUrlsFrom(hrefs, i + 1, Append(urls, hrefOf(hrefs[i])))
    ELSE pdfUrlsFrom(hrefs, i + 1, urls)

\* selectedPdfUrls (lines 521-526) for the links reversed: the first, one of
\* the others if there are any, and the two the other way round for coin = 0.
selectedFrom(reversed, index, coin) ==
    IF coin = 0
    THEN reverse(<<reversed[1]>> \o (IF Len(reversed) > 1 THEN <<at(Tail(reversed), index)>> ELSE <<>>))
    ELSE <<reversed[1]>> \o (IF Len(reversed) > 1 THEN <<at(Tail(reversed), index)>> ELSE <<>>)

\* moment().format("YYYY-MM-DD") in this run, and in an earlier run.
Today == <<"2", "0", "1", "8", "-", "1", "0", "-", "2", "0">>

Yesterday == <<"2", "0", "1", "8", "-", "1", "0", "-", "1", "9">>

\* The values insertRow binds to the statement (lines 46-54).
rowOf(developmentApplication) ==
    [council_reference |-> developmentApplication.applicationNumber,
     address |-> developmentApplication.address,
     description |-> developmentApplication.description,
     info_url |-> developmentApplication.informationUrl,
     comment_url |-> developmentApplication.commentUrl,
     date_scraped |-> developmentApplication.scrapeDate,
     date_received |-> developmentApplication.receivedDate]

\* "insert or replace into [data]", council_reference being the primary key:
\* a row with the same key is deleted before the row is inserted.
insertRow(rows, developmentApplication) ==
    {row \in rows : row.council_reference # developmentApplication.applicationNumber}
        \cup {rowOf(developmentApplication)}

\* What parsePdf(url) returns for the records its bands give, in their order.
RECURSIVE parsePdfFrom(_, _, _, _)
parsePdfFrom(url, parsed, i, applications) ==
    IF i > Len(parsed) THEN applications
    ELSE parsePdfFrom(url, parsed, i + 1,
             pushed(applications,
                    [applicationNumber |-> parsed[i][1], address |-> <<"7", " ", "R", "D">>,
                     description |-> parsed[i][2], informationUrl |-> url,
                     commentUrl |-> CommentUrl, scrapeDate |-> Today,
                     receivedDate |-> <<"2", "0", "1", "8", "-", "0", "2", "-", "0", "1">>]))

-----------------------------------------------------------------------------
(* The specification of main *)

\* At most this many links on the page.
MaxLinks == 3

\* The links of the page: three PDFs, one in capitals, and another page.
Hrefs == {<<"a", ".", "p", "d", "f">>, <<"b", ".", "P", "D", "F">>, <<"c", ".", "p", "d", "f">>, <<"d", ".", "h", "t", "m">>}

Links == UNION {[1..n -> Hrefs] : n \in 0..MaxLinks}

\* The documents, each the application numbers and descriptions of its bands:
\* without records, with one, with a number under two descriptions, with two
\* numbers, and with a record twice.
Documents ==
    {<<>>,
     <<<<<<"1", "/", "2", "0", "1", "8">>, <<"S", "h", "e", "d">>>>>>,
     <<<<<<"1", "/", "2", "0", "1", "8">>, <<"S", "h", "e", "d">>>>, <<<<"1", "/", "2", "0", "1", "8">>, <<"B", "a", "r", "n">>>>>>,
     <<<<<<"1", "/", "2", "0", "1", "8">>, <<"B", "a", "r", "n">>>>, <<<<"2", "/", "2", "0", "1", "8">>, <<"S", "h", "e", "d">>>>>>,
     <<<<<<"2", "/", "2", "0", "1", "8">>, <<"S", "h", "e", "d">>>>, <<<<"2", "/", "2", "0", "1", "8">>, <<"S", "h", "e", "d">>>>>>}

\* The table before the run: empty, or with a row of an earlier run.
Tables ==
    {{},
     {[council_reference |-> <<"1", "/", "2", "0", "1", "8">>, address |-> <<"7", " ", "R", "D">>,
       description |-> <<"S", "h", "e", "d">>, info_url |-> <<"/", "a", ".", "p", "d", "f">>,
       comment_url |-> CommentUrl, date_scraped |-> Yesterday,
       date_received |-> <<"2", "0", "1", "8", "-", "0", "2", "-", "0", "1">>]}}

InitMain ==
    /\ pc = "main"
    /\ database \in Tables
    /\ pdfUrls = <<>>
    /\ selectedPdfUrls = <<>>
    /\ processed = <<>>
    /\ developmentApplications = <<>>
    /\ arguments = <<>>
    /\ result = <<>>
    /\ walk = <<>>
    /\ numPages = 0
    /\ pageIndex = 0
    /\ elements = <<>>
    /\ applicationElementGroups = <<>>
    /\ groupIndex = 0
    /\ origins = <<>>
    /\ address = <<>>
    /\ formatted = <<>>

\* The number of documents main has called parsePdf for.
parsedDocuments == Cardinality({k \in 1..Len(processed) : processed[k].call = "parsePdf"})

\* The number of rows main has inserted since it last called parsePdf.
insertedRows ==
    Len(processed) - SetMax({k \in 1..Len(processed) : processed[k].call = "parsePdf"})

\* main up to the loop over the documents (lines 483-526), for the links of the
\* page it retrieves.
Main(hrefs) ==
    /\ pc = "main"
    /\ \E urls \in {pdfUrlsFrom(hrefs, 1, <<>>)} :
           IF Len(urls) = 0
           THEN /\ pc' = "returned"
                /\ pdfUrls' = urls
                /\ UNCHANGED selectedPdfUrls
           ELSE /\ pc' = "for"
                /\ pdfUrls' = Tail(reverse(urls))
                /\ \E index \in (IF Len(urls) > 1 THEN getRandom(0, Len(urls) - 1) ELSE {0}) :
                   \E coin \in getRandom(0, 2) :
                       selectedPdfUrls' = selectedFrom(reverse(urls), index, coin)
    /\ processed' = <<[call |-> "main", hrefs |-> hrefs]>>
    /\ UNCHANGED <<numPages, pageIndex, elements, applicationElementGroups, groupIndex,
                   developmentApplications, origins, address, formatted, functionVars, database>>

\* let developmentApplications = await parsePdf(pdfUrl) (line 530), for the
\* document at the link; parsePdf throws for some documents.
ParsePdf(document) ==
    /\ pc = "for"
    /\ parsedDocuments < Len(selectedPdfUrls)
    /\ processed' = Append(processed,
           [call |-> "parsePdf", pdfUrl |-> selectedPdfUrls[parsedDocuments + 1]])
    /\ \/ pc' = "thrown" /\ UNCHANGED developmentApplications
       \/ /\ developmentApplications' =
                 parsePdfFrom(selectedPdfUrls[parsedDocuments + 1], document, 1, <<>>)
          /\ pc' = IF Len(document) > 0 THEN "insertRow" ELSE "for"
    /\ UNCHANGED <<numPages, pageIndex, elements, applicationElementGroups, groupIndex,
                   origins, address, formatted, functionVars, pdfUrls, selectedPdfUrls, database>>

\* await insertRow(database, developmentApplication) (lines 533-534).
InsertRow ==
    /\ pc = "insertRow"
    /\ database' = insertRow(database, developmentApplications[insertedRows + 1])
    /\ processed' = Append(processed,
           [call |-> "insertRow", developmentApplication |-> developmentApplications[insertedRows + 1]])
    /\ pc' = IF insertedRows + 1 < Len(developmentApplications) THEN "insertRow" ELSE "for"
    /\ UNCHANGED <<numPages, pageIndex, elements, applicationElementGroups, groupIndex,
                   developmentApplications, origins, address, formatted, functionVars,
                   pdfUrls, selectedPdfUrls>>

NextMain ==
    \/ \E hrefs \in Links : Main(hrefs)
    \/ \E document \in Documents : ParsePdf(document)
    \/ InsertRow

SpecMain == InitMain /\ [][NextMain]_vars

-----------------------------------------------------------------------------
(* The specification of the loop that adds a unique suffix *)

\* At most this many records in the list.
MaxRecords == 3

\* The records parseApplicationElements returns: two application numbers, and
\* contents that differ in the address, the description and the received date.
SuffixNumbers == {<<"1", "/", "2", "0", "1", "8">>, <<"2", "/", "2", "0", "1", "8">>}

SuffixContents ==
    {<<<<"7", " ", "R", "D">>, <<"S", "h", "e", "d">>, <<"2", "0", "1", "8", "-", "0", "2", "-", "0", "1">>>>,
     <<<<"8", " ", "R", "D">>, <<"S", "h", "e", "d">>, <<"2", "0", "1", "8", "-", "0", "2", "-", "0", "1">>>>,
     <<<<"7", " ", "R", "D">>, <<"B", "a", "r", "n">>, <<"2", "0", "1", "8", "-", "0", "2", "-", "0", "1">>>>,
     <<<<"7", " ", "R", "D">>, <<"S", "h", "e", "d">>, <<>>>>}

ParsedApplications ==
    {[applicationNumber |-> number, address |-> content[1], description |-> content[2],
      informationUrl |-> InformationUrl, commentUrl |-> CommentUrl,
      receivedDate |-> content[3]] : number \in SuffixNumbers, content \in SuffixContents}

InitSuffix ==
    /\ OutsideMain
    /\ pc = "for"
    /\ developmentApplications = <<>>
    /\ walk = <<>>
    /\ arguments = <<>>
    /\ result = <<>>
    /\ numPages = 0
    /\ pageIndex = 0
    /\ elements = <<>>
    /\ applicationElementGroups = <<>>
    /\ groupIndex = 0
    /\ origins = <<>>
    /\ address = <<>>
    /\ formatted = <<>>

\* A band has given a record (lines 449-453): suffix = 0, applicationNumber is
\* the number of the record.  tests counts the tests of the while loop.
ParseApplication(application) ==
    /\ pc = "for"
    /\ Len(developmentApplications) < MaxRecords
    /\ walk' = [developmentApplication |-> application,
                suffix |-> 0,
                applicationNumber |-> application.applicationNumber,
                tests |-> 0]
    /\ pc' = "while"
    /\ UNCHANGED <<numPages, pageIndex, elements, applicationElementGroups, groupIndex,
                   developmentApplications, origins, address, formatted, arguments, result, mainVars>>

\* One test of the while loop, and the statement after it: the body of the loop
\* (line 460) or the push that follows the loop (line 461).
While ==
    /\ pc = "while"
    /\ IF clashes(developmentApplications, walk.developmentApplication)
       THEN /\ walk' = [walk EXCEPT
                           !.suffix = @ + 1,
                           !.developmentApplication.applicationNumber =
                               suffixed(walk.applicationNumber, walk.suffix + 1),
                           !.tests = @ + 1]
            /\ UNCHANGED <<pc, developmentApplications>>
       ELSE /\ walk' = [walk EXCEPT !.tests = @ + 1]
            /\ developmentApplications' =
                   Append(developmentApplications, walk.developmentApplication)
            /\ pc' = "for"
    /\ UNCHANGED <<numPages, pageIndex, elements, applicationElementGroups, groupIndex,
                   origins, address, formatted, arguments, result, mainVars>>

NextSuffix ==
    \/ \E application \in ParsedApplications : ParseApplication(application)
    \/ While

SpecSuffix == InitSuffix /\ [][NextSuffix]_vars

\* The test and the body of the loop are steps of one synchronous function:
\* nothing keeps them from being taken.  This is WF_vars(While) written out,
\* While being enabled, and changing walk, exactly when pc = "while".
SpecSuffixFair == SpecSuffix /\ ([]<>(pc # "while") \/ []<><<While>>_vars)

-----------------------------------------------------------------------------
(* The specification of findStartElements and the row bands of a page *)

\* What a row has where its start element is looked for: "Lodgement" whole;
\* twice on the line, too far apart to be joined; an "L" with a misspelt
\* "Lodgemnt" right of it; "Lodgement" with an element of white space right of
\* it; and a word that starts with an "L" and is no start element.
MarkerKinds == {"whole", "twice", "joined", "blank", "none"}

MarkerRow(kind, y) ==
    (IF kind = "whole" THEN <<Element(Lodgement, 8, y, 9, 2)>>
     ELSE IF kind = "twice" THEN <<Element(Lodgement, 8, y, 9, 2), Element(Lodgement, 50, y, 9, 2)>>
     ELSE IF kind = "joined"
          THEN <<Element(<<"L">>, 8, y, 1, 2), Element(<<"L", "o", "d", "g", "e", "m", "n", "t">>, 10, y, 8, 2)>>
     ELSE IF kind = "blank" THEN <<Element(Lodgement, 8, y, 9, 2), Element(<<" ">>, 18, y, 1, 2)>>
     ELSE <<Element(<<"L", "o", "t">>, 8, y, 3, 2)>>)
    \o <<Element(<<"S", "h", "e", "d">>, 60, y, 4, 2)>>

\* The second row starts half a line, a line or three lines below the first.
SecondRowTops == {5, 6, 10}

\* The pages: the headings and one or two rows, sorted as parsePdf sorts them.
MarkerPages ==
    {sort(Headings("all") \o MarkerRow(kind, 4), "elementComparer") : kind \in MarkerKinds}
    \cup {sort(Headings("all") \o MarkerRow(first, 4) \o MarkerRow(second, y), "elementComparer") :
              first \in MarkerKinds, second \in MarkerKinds, y \in SecondRowTops}

InitMarkers ==
    /\ OutsideMain
    /\ pc = "markers"
    /\ elements \in MarkerPages
    /\ result = <<>>
    /\ applicationElementGroups = <<>>
    /\ arguments = <<>>
    /\ walk = <<>>
    /\ numPages = 0
    /\ pageIndex = 0
    /\ groupIndex = 0
    /\ developmentApplications = <<>>
    /\ origins = <<>>
    /\ address = <<>>
    /\ formatted = <<>>

\* let startElements = findStartElements(elements) (line 423): result is what
\* it returns, unless the choice of a best match throws.
FindStartElements ==
    /\ pc = "markers"
    /\ \E found \in {findStartElements(elements)} :
           IF found.threw
           THEN pc' = "thrown" /\ UNCHANGED result
           ELSE pc' = "findStartElements" /\ result' = found.startElements
    /\ UNCHANGED <<numPages, pageIndex, elements, applicationElementGroups, groupIndex,
                   developmentApplications, origins, address, formatted, arguments, walk, mainVars>>

\* The loop that makes a row band for each start element (lines 424-442).
GroupElements ==
    /\ pc = "findStartElements"
    /\ applicationElementGroups' = groupsOf(elements, result)
    /\ pc' = "grouped"
    /\ UNCHANGED <<numPages, pageIndex, elements, groupIndex, developmentApplications,
                   origins, address, formatted, functionVars, mainVars>>

NextMarkers == FindStartElements \/ GroupElements

SpecMarkers == InitMarkers /\ [][NextMarkers]_vars

-----------------------------------------------------------------------------
(* Properties of parsePdf, checked under Spec *)

\* While pc = "group": the row band the next step parses.
currentGroup == applicationElementGroups[groupIndex]

\* While pc = "group": the band's application number and application date
\* element can both be found.
currentGroupResolves ==
    /\ findApplicationNumber(
           applicationNumberElements(currentGroup.elements, currentGroup.startElement,
                                     applicantElementOf(elements))) # Undefined
    /\ findApplicationDateElement(currentGroup.elements, applicationElementOf(elements))
           # UndefinedElement

\* The step appends one record to the result list.
appendsOne ==
    /\ Len(developmentApplications') = Len(developmentApplications) + 1
    /\ SubSeq(developmentApplications', 1, Len(developmentApplications)) = developmentApplications

\* The step goes on to the next band of the page, or after the last band to the
\* next page.
goesOn ==
    IF groupIndex < Len(applicationElementGroups)
    THEN pc' = "group" /\ groupIndex' = groupIndex + 1 /\ pageIndex' = pageIndex
    ELSE pc' = "page" /\ pageIndex' = pageIndex + 1

\* C1: the row bands of a page partition its elements: an element is in some
\* band exactly when it does not lie above the top of the first band, and no
\* element is in two bands.
C1_BandsPartitionPage ==
    pc = "group" =>
        LET bands == 1..Len(applicationElementGroups)
            inBand(e, g) == \E k \in 1..Len(applicationElementGroups[g].elements) :
                                applicationElementGroups[g].elements[k] = e
            firstTop2 == rowTop2(elements, <<applicationElementGroups[1].startElement>>, 1)
        IN  \A i \in 1..Len(elements) :
                /\ (\E g \in bands : inBand(elements[i], g)) <=> (2 * elements[i].y >= firstTop2)
                /\ \A g, h \in bands :
                       inBand(elements[i], g) /\ inBand(elements[i], h) => g = h

\* C2: a record whose parsed application number is that of an earlier record of
\* the list which differs from it in address, description or received date is
\* in the list under its number with a suffix " (n)", n at most the number of
\* earlier records (so " (1)" for the second of two); a record with no such
\* earlier record is in the list under its number as parsed.
C2_SuffixOnDifferingRepeat ==
    /\ Len(origins) = Len(developmentApplications)
    /\ \A k \in 1..Len(developmentApplications) :
           LET parsed == origins[k].developmentApplication
               clash == \E j \in 1..(k - 1) :
                            /\ developmentApplications[j].applicationNumber = parsed.applicationNumber
                            /\ \/ developmentApplications[j].address # parsed.address
                               \/ developmentApplications[j].description # parsed.description
                               \/ developmentApplications[j].receivedDate # parsed.receivedDate
           IN  IF clash
               THEN \E n \in 1..(k - 1) :
                        developmentApplications[k].applicationNumber =
                            parsed.applicationNumber \o <<" ", "(">> \o numeral(n) \o <<")">>
               ELSE developmentApplications[k].applicationNumber = parsed.applicationNumber

\* A document has been read in which one record was renamed and another is a
\* repeat, unchanged, of an earlier record.
C2_Witness ==
    /\ pc = "returned"
    /\ \E k \in 1..Len(developmentApplications) :
           developmentApplications[k].applicationNumber
               # origins[k].developmentApplication.applicationNumber
    /\ \E j, k \in 1..Len(developmentApplications) :
           j < k /\ developmentApplications[j] = developmentApplications[k]

\* C3, as it holds: any two records of the returned list with the same
\* application number have the same address, description and received date.
C3_SameNumberSameContent ==
    pc = "returned" =>
        \A j, k \in 1..Len(developmentApplications) :
            developmentApplications[j].applicationNumber = developmentApplications[k].applicationNumber
                => /\ developmentApplications[j].address = developmentApplications[k].address
                   /\ developmentApplications[j].description = developmentApplications[k].description
                   /\ developmentApplications[j].receivedDate = developmentApplications[k].receivedDate

\* A list has been returned in which an application number occurs twice, and
\* another record of the same parsed number was renamed.
C3_Witness ==
    /\ pc = "returned"
    /\ \E j, k \in 1..Len(developmentApplications) :
           j < k /\ developmentApplications[j].applicationNumber = developmentApplications[k].applicationNumber
    /\ \E k \in 1..Len(developmentApplications) :
           developmentApplications[k].applicationNumber
               # origins[k].developmentApplication.applicationNumber

\* C3, as stated: no two records of the returned list have the same application
\* number.
C3_NumberIsUniqueKey ==
    pc = "returned" =>
        \A j, k \in 1..Len(developmentApplications) :
            j # k => developmentApplications[j].applicationNumber
                         # developmentApplications[k].applicationNumber

\* C4: a page without the "Applicant", the "Application" or the "Proposal"
\* heading adds no record and throws nothing, and parsePdf goes on to the next
\* page.
C4_MissingAnchorSkipsPage ==
    [][(/\ pc = "items"
        /\ \E label \in {<<"A", "p", "p", "l", "i", "c", "a", "n", "t">>, <<"A", "p", "p", "l", "i", "c", "a", "t", "i", "o", "n">>, <<"P", "r", "o", "p", "o", "s", "a", "l">>} :
               \A i \in 1..Len(elements) : trim(elements[i].text) # label)
           => /\ pc' = "page"
              /\ pageIndex' = pageIndex + 1
              /\ developmentApplications' = developmentApplications]_vars

\* C5: the list is the records parsed, in the order of their pages and within a
\* page in the order of their bands, which is the order of the Y co-ordinates
\* of the start elements.
C5_ConcatenationInPageAndBandOrder ==
    /\ Len(origins) = Len(developmentApplications)
    /\ \A k \in 1..Len(origins) :
           IF k <= Len(developmentApplications)
           THEN /\ developmentApplications[k].address = origins[k].developmentApplication.address
                /\ developmentApplications[k].description = origins[k].developmentApplication.description
                /\ developmentApplications[k].receivedDate = origins[k].developmentApplication.receivedDate
                /\ startsWith(developmentApplications[k].applicationNumber,
                              origins[k].developmentApplication.applicationNumber)
           ELSE FALSE
    /\ \A j, k \in 1..Len(origins) :
           j < k => \/ origins[j].pageIndex < origins[k].pageIndex
                    \/ /\ origins[j].pageIndex = origins[k].pageIndex
                       /\ origins[j].groupIndex < origins[k].groupIndex
                       /\ origins[j].y <= origins[k].y

\* A list has been returned with two records of one page, of different content,
\* before a record of the next page.
C5_Witness ==
    /\ pc = "returned"
    /\ Len(developmentApplications) >= 3
    /\ origins[1].pageIndex = origins[2].pageIndex
    /\ developmentApplications[1].description # developmentApplications[2].description
    /\ origins[2].pageIndex < origins[3].pageIndex

\* C6: the received date of a record is the date of the first element of its
\* band that is in the date column, strictly below the application date element
\* and a date in the strict format D/MM/YYYY, and the date of the application
\* date element only when the band has no such element.
C6_ReceivedDateFromFragmentBelow ==
    [][(pc = "group" /\ Len(developmentApplications') = Len(developmentApplications) + 1)
           => LET s == currentGroup.elements
                  applicationElement == applicationElementOf(elements)
                  applicationDateElement == findApplicationDateElement(s, applicationElement)
                  below == {i \in 1..Len(s) :
                               /\ inDateColumn(s[i], applicationElement)
                               /\ s[i].y > applicationDateElement.y + applicationDateElement.height
                               /\ parseDate(trim(s[i].text)).isValid}
                  dateElement == IF below = {} THEN applicationDateElement ELSE s[SetMin(below)]
              IN  developmentApplications'[Len(developmentApplications')].receivedDate
                      = formatDate(parseDate(trim(dateElement.text)))]_vars

\* C7: parsing a band whose application number or application date element
\* cannot be found leaves the list as it is, throws nothing and goes on to the
\* next band or the next page; parsing any band adds at most one record, so a
\* page never has more records in the list than bands parsed.
C7_UnresolvedBandDropsOneRecord ==
    /\ [][pc = "group"
             => /\ pc' # "thrown"
                /\ goesOn
                /\ developmentApplications' = developmentApplications \/ appendsOne
                /\ ~currentGroupResolves => developmentApplications' = developmentApplications]_vars
    /\ [](pc = "group"
             => Cardinality({k \in 1..Len(origins) : origins[k].pageIndex = pageIndex})
                    <= groupIndex - 1)

\* A list has been returned with the record of the second band of a page whose
\* first band gave none, and with a record of the page after it.
C7_Witness ==
    /\ pc = "returned"
    /\ \E k \in 1..Len(origins) :
           /\ origins[k].groupIndex = 2
           /\ \A j \in 1..Len(origins) :
                  origins[j].pageIndex = origins[k].pageIndex => origins[j].groupIndex = 2
           /\ \E j \in 1..Len(origins) : origins[j].pageIndex > origins[k].pageIndex

\* C8: a page with the three required headings and start elements but without
\* "Referrals/" gets its row bands, and each of its bands whose application
\* number and application date element can be found adds a record whose
\* description is "No Description Provided".
C8_NoReferralsKeepsPage ==
    [][/\ (/\ pc = "items"
           /\ elements # <<>>
           /\ applicantElementOf(elements) # UndefinedElement
           /\ applicationElementOf(elements) # UndefinedElement
           /\ proposalElementOf(elements) # UndefinedElement
           /\ referralsElementOf(elements) = UndefinedElement
           /\ ~findStartElements(pageElements(elements)).threw
           /\ findStartElements(pageElements(elements)).startElements # <<>>)
              => /\ pc' = "group"
                 /\ Len(applicationElementGroups')
                        = Len(findStartElements(pageElements(elements)).startElements)
       /\ (/\ pc = "group"
           /\ referralsElementOf(elements) = UndefinedElement
           /\ currentGroupResolves)
              => /\ appendsOne
                 /\ developmentApplications'[Len(developmentApplications')].description
                        = NoDescriptionProvided]_vars

\* The second band of a page without "Referrals/" is about to be parsed, and
\* the first has added a record with the placeholder for its description.
C8_Witness ==
    /\ pc = "group"
    /\ referralsElementOf(elements) = UndefinedElement
    /\ groupIndex = 2
    /\ origins # <<>>
    /\ origins[Len(origins)].pageIndex = pageIndex
    /\ developmentApplications[Len(developmentApplications)].description = NoDescriptionProvided

-----------------------------------------------------------------------------
(* Properties of formatAddress, checked under SpecAddr *)

\* None of the last 1 to 4 tokens of the address is taken for a suburb name.
noSuburbMatches ==
    \A index \in 1..4 :
        didyoumean(join(lastTokens(split(trim(address), " "), index), <<" ">>), suburbKeys, 2) = 0

\* C9: an address made of a street, a suburb that matches a known suburb name
\* and a reference in parentheses, whole or cut short, is returned as the
\* street, a comma and the suburb with its state and post code, and without the
\* comma when there is no street.
C9_ReferenceStrippedAndSuburbFormatted ==
    pc = "formatted" =>
        \A street \in Streets, suburb \in Suburbs, reference \in References \ {<<>>} :
            (/\ address = Address(<<>>, street, suburb, reference, <<>>)
             /\ didyoumean(suburb, suburbKeys, 2) # 0)
                => formatted = street \o (IF street = <<>> THEN <<>> ELSE <<",", " ">>)
                                   \o SuburbNames[didyoumean(suburb, suburbKeys, 2)].value

\* C10, as it holds: an address of white space only is returned as "", and an
\* address in which no suburb name is found is returned trimmed.
C10_UnmatchedAddressTrimmed ==
    pc = "formatted" =>
        /\ trim(address) = <<>> => formatted = <<>>
        /\ noSuburbMatches => formatted = trim(address)

\* An address with white space around it and no suburb name in it has been
\* formatted.
C10_Witness ==
    /\ pc = "formatted"
    /\ noSuburbMatches
    /\ trim(address) # <<>>
    /\ trim(address) # address

\* C10, as stated: an address of white space only is returned as "", and an
\* address in which no suburb name is found is returned unchanged.
C10_UnmatchedAddressUnchanged ==
    pc = "formatted" =>
        /\ trim(address) = <<>> => formatted = <<>>
        /\ (trim(address) # <<>> /\ noSuburbMatches) => formatted = address

-----------------------------------------------------------------------------
(* Properties of the functions of two rectangles, checked under SpecRect *)

\* C11: the intersection of two rectangles has the same area whichever is given
\* first, the area 0 when the projections of the two on the X axis or on the Y
\* axis are disjoint, and neither a negative width nor a negative height.
C11_IntersectSymmetricNonNegative ==
    pc = "intersect" =>
        /\ getArea(result[1]) = getArea(result[2])
        /\ (\/ arguments[1].x + arguments[1].width < arguments[2].x
            \/ arguments[2].x + arguments[2].width < arguments[1].x
            \/ arguments[1].y + arguments[1].height < arguments[2].y
            \/ arguments[2].y + arguments[2].height < arguments[1].y)
               => getArea(result[1]) = 0
        /\ \A i \in 1..2 : result[i].width >= 0 /\ result[i].height >= 0

\* Two different rectangles with a common region have been intersected.
C11_Witness ==
    /\ pc = "intersect"
    /\ arguments[1] # arguments[2]
    /\ getArea(result[1]) > 0
    /\ getArea(result[1]) < getArea(arguments[1])
    /\ getArea(result[1]) < getArea(arguments[2])

\* C12: for two elements of positive height the percentage is at least 0 and at
\* most 100, and it is 100 when the second element lies between the top and
\* the bottom of the first.
C12_PercentageInRange ==
    (pc = "getVerticalOverlapPercentage" /\ arguments[1].height > 0 /\ arguments[2].height > 0)
        => /\ result.den > 0
           /\ result.num >= 0
           /\ result.num <= 100 * result.den
           /\ (/\ arguments[1].y <= arguments[2].y
               /\ arguments[2].y + arguments[2].height <= arguments[1].y + arguments[1].height)
                  => result.num = 100 * result.den

\* The percentage has been taken of an element that lies inside a taller one.
C12_Witness ==
    /\ pc = "getVerticalOverlapPercentage"
    /\ arguments[2].height > 0
    /\ arguments[1].height > arguments[2].height
    /\ arguments[1].y <= arguments[2].y
    /\ arguments[2].y + arguments[2].height <= arguments[1].y + arguments[1].height
    /\ result.num = 100 * result.den

-----------------------------------------------------------------------------
(* Properties of getRightElement and getRowTop, checked under SpecRow *)

\* How much of the height of element e lies between the top and the bottom of
\* the element given.
heightInside(e) ==
    LET top == IF e.y > arguments[1].y THEN e.y ELSE arguments[1].y
        bottom == Min2(e.y + e.height, arguments[1].y + arguments[1].height)
    IN  IF bottom > top THEN bottom - top ELSE 0

\* More than 50% of the height of e lies inside the span of the element given.
mostlyInside(e) == 100 * heightInside(e) > 50 * e.height

\* e is to the right of the right edge of the element given and less than 30
\* from it, and mostly inside its span.
isRightOf(e) ==
    /\ e.x > arguments[1].x + arguments[1].width
    /\ e.x - (arguments[1].x + arguments[1].width) < 30
    /\ mostlyInside(e)

\* Four times the square of the distance from the middle of the right edge of
\* the element given to the middle of the left edge of e.
rightwardDistance(e) ==
    4 * (e.x - (arguments[1].x + arguments[1].width)) * (e.x - (arguments[1].x + arguments[1].width))
    + ((2 * e.y + e.height) - (2 * arguments[1].y + arguments[1].height))
          * ((2 * e.y + e.height) - (2 * arguments[1].y + arguments[1].height))

\* C18: getRightElement returns undefined exactly when no element of the page
\* is to the right of the element given, less than 30 from it and mostly inside
\* its span; otherwise it returns such an element, none of the others being
\* nearer; it never returns the element given.
C18_RightElementIsNearest ==
    pc = "getRightElement" =>
        /\ result = UndefinedElement <=> ~\E i \in 1..Len(elements) : isRightOf(elements[i])
        /\ result # UndefinedElement =>
               /\ \E i \in 1..Len(elements) : elements[i] = result
               /\ isRightOf(result)
               /\ \A i \in 1..Len(elements) :
                      isRightOf(elements[i]) => rightwardDistance(result) <= rightwardDistance(elements[i])
        /\ result # arguments[1]

\* The nearer of two elements to the right has been returned, the page having
\* it after the other.
C18_Witness ==
    /\ pc = "getRightElement"
    /\ Len(elements) = 2
    /\ isRightOf(elements[1])
    /\ isRightOf(elements[2])
    /\ rightwardDistance(elements[2]) < rightwardDistance(elements[1])
    /\ result = elements[2]

\* C19: getRowTop returns the least of the Y co-ordinate of the element given
\* and the Y co-ordinates of the elements of the page that are mostly inside
\* its span; so it returns nothing greater than that Y co-ordinate, and an
\* element more than twice as tall as the element given has no part in it.
C19_RowTopIsLeastOverlappingY ==
    pc = "getRowTop" =>
        /\ result = SetMin({arguments[1].y}
                            \cup {elements[i].y : i \in {j \in 1..Len(elements) : mostlyInside(elements[j])}})
        /\ result <= arguments[1].y
        /\ result = getRowTop(SelectSeq(elements, LAMBDA e : e.height <= 2 * arguments[1].height),
                              arguments[1])

\* The row top is that of an element higher up, and the page has a taller
\* element that is higher still.
C19_Witness ==
    /\ pc = "getRowTop"
    /\ result < arguments[1].y
    /\ \E i \in 1..Len(elements) :
           elements[i].height > 2 * arguments[1].height /\ elements[i].y < result

-----------------------------------------------------------------------------
(* Properties of the walk to the right, checked under SpecWalk *)

\* While pc = "walk": the text the iteration forms.
textWalked == walkText(Append(walk.rightElements, walk.rightElement))

\* The text is taken for "Lodgement" at the threshold.
accepts(text, threshold) ==
    IF threshold = 0 THEN text = toLowerCase(Lodgement)
    ELSE didyoumean(text, <<Lodgement>>, threshold) # 0

\* The text a match was made on: that of the elements walked over up to the
\* element of the match.
textOfMatch(match) ==
    walkText(SubSeq(walk.rightElements, 1,
                    CHOOSE i \in 1..Len(walk.rightElements) : walk.rightElements[i] = match.element))

\* How far the length of the text of a match is from the length of "Lodgement".
closeness(match) ==
    IF Len(textOfMatch(match)) > Len(Lodgement)
    THEN Len(textOfMatch(match)) - Len(Lodgement)
    ELSE Len(Lodgement) - Len(textOfMatch(match))

\* C13: a text of 8 or 9 characters that is taken for "Lodgement" at threshold
\* 0 is taken for it at threshold 1, and one taken for it at threshold 1 is
\* taken for it at threshold 2; the match recorded for the text has the least
\* threshold at which the text is taken for it, and none is recorded for a
\* text that is not taken for it at any.
C13_ThresholdRecordedIsLeast ==
    [][(pc = "walk" /\ Len(textWalked) \in {8, 9})
           => /\ accepts(textWalked, 0) => accepts(textWalked, 1)
              /\ accepts(textWalked, 1) => accepts(textWalked, 2)
              /\ walk'.matches =
                     IF \E threshold \in 0..2 : accepts(textWalked, threshold)
                     THEN Append(walk.matches,
                                 [element |-> walk.rightElement,
                                  threshold |-> SetMin({threshold \in 0..2 :
                                                           accepts(textWalked, threshold)})])
                     ELSE walk.matches]_vars

\* A walk has ended with a match at threshold 1 and then one at threshold 2.
C13_Witness ==
    /\ pc = "walked"
    /\ Len(walk.matches) = 2
    /\ walk.matches[1].threshold = 1
    /\ walk.matches[2].threshold = 2

\* C14: when the walk has made matches, the element pushed as start element is
\* that of a match of the least threshold and, among those, of a text whose
\* length is nearest to that of "Lodgement".
C14_BestMatchByThresholdThenLength ==
    [][(pc = "walked" /\ walk.matches # <<>>)
           => /\ pc' = "pushed"
              /\ \E k \in 1..Len(walk.matches) :
                     /\ result' = walk.matches[k].element
                     /\ \A j \in 1..Len(walk.matches) :
                            \/ walk.matches[k].threshold < walk.matches[j].threshold
                            \/ /\ walk.matches[k].threshold = walk.matches[j].threshold
                               /\ closeness(walk.matches[k]) <= closeness(walk.matches[j])]_vars

\* C20: the walk ends; it walks over at most 10 elements, each to the right of
\* the right edge of the one before; an iteration is the last exactly when its
\* text has 10 characters or more, or there is no element to the right, or 10
\* elements have been walked over; and a match is only made on a text of 8 or
\* 9 characters.
C20_WalkTerminates ==
    /\ [](pc \in {"walk", "walked"}
              => /\ Len(walk.rightElements) <= 10
                 /\ \A i \in 1..(Len(walk.rightElements) - 1) :
                        walk.rightElements[i + 1].x
                            > walk.rightElements[i].x + walk.rightElements[i].width
                 /\ \A i, j \in 1..Len(walk.rightElements) :
                        walk.rightElements[i] = walk.rightElements[j] => i = j)
    /\ [][pc = "walk"
             => /\ pc' = "walked"
                       <=> \/ Len(textWalked) >= 10
                           \/ getRightElement(elements, walk.rightElement) = UndefinedElement
                           \/ Len(walk.rightElements) + 1 >= 10
                /\ Len(walk'.rightElements) = Len(walk.rightElements) + 1
                /\ Len(walk'.matches) > Len(walk.matches) => Len(textWalked) \in {8, 9}]_vars
    /\ <>(pc # "walk")

\* A walk has ended at the tenth element with an element to the right of it.
C20_Witness ==
    /\ pc = "walked"
    /\ Len(walk.rightElements) = 10
    /\ walk.rightElement # UndefinedElement

-----------------------------------------------------------------------------
(* Properties of parseApplicationElements, checked under SpecBand *)

\* The elements of the band at the indices given, in the order of the band,
\* their texts joined with a space before each that is more than half its
\* height lower than the one before.
joinedLines(indices) ==
    LET s == SelectSeq([i \in 1..Len(elements) |-> IF i \in indices THEN <<elements[i]>> ELSE <<>>],
                       LAMBDA e : e # <<>>)
    IN  join([i \in 1..Len(s) |->
                 (IF i > 1 /\ 2 * s[i][1].y > 2 * s[i - 1][1].y + s[i][1].height
                  THEN <<" ">> ELSE <<>>) \o s[i][1].text], <<>>)

\* The description for the joined texts: the placeholder for white space only.
describing(text) == IF trim(text) = <<>> THEN NoDescriptionProvided ELSE text

\* The elements of the band left of the "Applicant" heading and above the
\* start element's Y co-ordinate plus twice its height, from the left.
leftOfApplicant ==
    sort(SelectSeq(elements, LAMBDA e : /\ e.x < arguments[2].x
                                        /\ e.y < arguments[1].y + 2 * arguments[1].height),
         "xComparer")

\* The texts of the first n of them joined, without white space.
numberPrefix(n) ==
    SelectSeq(join([i \in 1..n |-> leftOfApplicant[i].text], <<>>), LAMBDA c : c \notin WhiteSpace)

\* The text ends with a slash and four digits.
endsWithYear(text) ==
    /\ Len(text) >= 5
    /\ text[Len(text) - 4] = "/"
    /\ \A i \in (Len(text) - 3)..Len(text) : text[i] \in Digits

\* The area of the part of element e under the "Application" heading, the
\* heading put at the Y co-ordinate of e.
areaUnderHeading(e) ==
    LET left == IF e.x > arguments[3].x THEN e.x ELSE arguments[3].x
        right == Min2(e.x + e.width, arguments[3].x + arguments[3].width)
        height == Min2(e.height, arguments[3].height)
    IN  IF right > left /\ height > 0 THEN (right - left) * height ELSE 0

\* C15, as it holds: with the "Referrals/" heading, the description of the
\* record is made of the elements of the band whose X co-ordinate is greater
\* than that of the "Proposal" heading less half its height, and less than that
\* of the "Referrals/" heading: their texts in the order of the band, with one
\* space before a text that is more than half its height lower than the one
\* before.
C15_DescriptionRightOfProposalLine ==
    (/\ pc = "parseApplicationElements"
     /\ arguments[5] # UndefinedElement
     /\ result.developmentApplication # UndefinedApplication)
        => result.developmentApplication.description =
               describing(joinedLines({i \in 1..Len(elements) :
                   /\ 2 * elements[i].x > 2 * arguments[4].x - arguments[4].height
                   /\ elements[i].x < arguments[5].x}))

\* A record has been made of a band with an element exactly at the X
\* co-ordinate of the "Proposal" heading less half its height, and its
\* description is the text of the element after it.
C15_Witness ==
    /\ pc = "parseApplicationElements"
    /\ arguments[5] # UndefinedElement
    /\ result.developmentApplication # UndefinedApplication
    /\ \E i \in 1..Len(elements) :
           2 * elements[i].x = 2 * arguments[4].x - arguments[4].height
    /\ result.developmentApplication.description = <<"S", "h", "e", "d">>

\* C15, as stated: with the "Referrals/" heading, the description of the record
\* is made of the elements of the band whose X co-ordinate is at least that of the
\* "Proposal" heading less half its height, and less than that of the
\* "Referrals/" heading: their texts in the order of the band, with one space
\* before a text that is more than half its height lower than the one before.
C15_DescriptionFromProposalColumn ==
    (/\ pc = "parseApplicationElements"
     /\ arguments[5] # UndefinedElement
     /\ result.developmentApplication # UndefinedApplication)
        => result.developmentApplication.description =
               describing(joinedLines({i \in 1..Len(elements) :
                   /\ 2 * elements[i].x >= 2 * arguments[4].x - arguments[4].height
                   /\ elements[i].x < arguments[5].x}))

\* C16: the application number of the record is the first of the texts, joined
\* from the left and without white space, of the leading elements left of the
\* "Applicant" heading that ends with a slash and four digits; there is no
\* record when none does, and there is one when one does and the band has an
\* application date element.
C16_NumberIsShortestPrefix ==
    pc = "parseApplicationElements" =>
        LET matching == {n \in 1..Len(leftOfApplicant) : endsWithYear(numberPrefix(n))}
        IN  /\ matching = {} => result.developmentApplication = UndefinedApplication
            /\ (matching # {} /\ result.applicationDateElement # UndefinedElement)
                   => result.developmentApplication # UndefinedApplication
            /\ result.developmentApplication # UndefinedApplication =>
                   /\ matching # {}
                   /\ \E n \in matching :
                          /\ result.developmentApplication.applicationNumber = numberPrefix(n)
                          /\ \A m \in matching : n <= m

\* A record has been returned whose number is the text of two elements, the
\* left one coming after the right one in the band.
C16_Witness ==
    /\ pc = "parseApplicationElements"
    /\ result.developmentApplication # UndefinedApplication
    /\ result.developmentApplication.applicationNumber = numberPrefix(2)
    /\ \E i, j \in 1..Len(elements) :
           /\ i < j
           /\ elements[i] = leftOfApplicant[2]
           /\ elements[j] = leftOfApplicant[1]

\* C17, as it holds: the application date element is the first element of the
\* band with an area greater than 0 and greater than half the area of the
\* "Application" heading, more than three quarters of it under the heading;
\* there is no record when the band has no such element.
C17_DateElementMoreThanHalfArea ==
    pc = "parseApplicationElements" =>
        LET qualifying == {i \in 1..Len(elements) :
                              /\ elements[i].width * elements[i].height > 0
                              /\ 2 * elements[i].width * elements[i].height
                                     > arguments[3].width * arguments[3].height
                              /\ 4 * areaUnderHeading(elements[i])
                                     > 3 * elements[i].width * elements[i].height}
        IN  IF qualifying = {}
            THEN /\ result.applicationDateElement = UndefinedElement
                 /\ result.developmentApplication = UndefinedApplication
            ELSE /\ result.applicationDateElement = elements[SetMin(qualifying)]
                 /\ \A i \in qualifying : elementComparer(elements[SetMin(qualifying)], elements[i]) <= 0

\* The application date element found is on the second line of a band whose
\* first line has an element of exactly half the area of the heading under it.
C17_Witness ==
    /\ pc = "parseApplicationElements"
    /\ result.developmentApplication # UndefinedApplication
    /\ result.applicationDateElement.y = 7
    /\ \E i \in 1..Len(elements) :
           /\ elements[i].y = 4
           /\ 2 * elements[i].width * elements[i].height = arguments[3].width * arguments[3].height
           /\ areaUnderHeading(elements[i]) = elements[i].width * elements[i].height

\* C17, as stated: the application date element is the first element of the
\* band with an area greater than 0 and at least half the area of the
\* "Application" heading, more than three quarters of it under the heading;
\* there is no record when the band has no such element.
C17_DateElementAtLeastHalfArea ==
    pc = "parseApplicationElements" =>
        LET qualifying == {i \in 1..Len(elements) :
                              /\ elements[i].width * elements[i].height > 0
                              /\ 2 * elements[i].width * elements[i].height
                                     >= arguments[3].width * arguments[3].height
                              /\ 4 * areaUnderHeading(elements[i])
                                     > 3 * elements[i].width * elements[i].height}
        IN  IF qualifying = {}
            THEN /\ result.applicationDateElement = UndefinedElement
                 /\ result.developmentApplication = UndefinedApplication
            ELSE result.applicationDateElement = elements[SetMin(qualifying)]

\* The texts of the elements of the band at the indices given, joined in the
\* order of their X co-ordinates.
joinedFromLeft(indices) ==
    join(texts(sort(SelectSeq([i \in 1..Len(elements) |-> IF i \in indices THEN elements[i] ELSE <<>>],
                              LAMBDA e : e # <<>>), "xComparer")), <<>>)

\* Element e has more than half its height within the lines of the application
\* date element found.
onDateLine(e) ==
    LET top == IF e.y > result.applicationDateElement.y THEN e.y ELSE result.applicationDateElement.y
        bottom == Min2(e.y + e.height,
                       result.applicationDateElement.y + result.applicationDateElement.height)
    IN  bottom > top /\ 2 * (bottom - top) > e.height

\* C30: no element of the band is in both the address and the description of
\* the record: the address is made of elements strictly left of the X
\* co-ordinate of the "Proposal" heading less half its height (right of the
\* application date and on its line), the description of elements strictly
\* right of it (and left of the "Referrals/" heading).
C30_AddressAndDescriptionApart ==
    (pc = "parseApplicationElements" /\ result.developmentApplication # UndefinedApplication)
        => LET inAddress == {i \in 1..Len(elements) :
                                /\ elements[i].x > result.applicationDateElement.x
                                                       + result.applicationDateElement.width
                                /\ onDateLine(elements[i])
                                /\ 2 * elements[i].x < 2 * arguments[4].x - arguments[4].height}
               inDescription == IF arguments[5] = UndefinedElement THEN {}
                                ELSE {i \in 1..Len(elements) :
                                         /\ 2 * elements[i].x > 2 * arguments[4].x - arguments[4].height
                                         /\ elements[i].x < arguments[5].x}
           IN  /\ inAddress \cap inDescription = {}
               /\ result.developmentApplication.address = formatAddress(joinedFromLeft(inAddress))
               /\ result.developmentApplication.description = describing(joinedLines(inDescription))

\* A record has been made of a band with an element left of, an element at and
\* an element right of the X co-ordinate of the "Proposal" heading less half its
\* height, all on the line of the application date: the first is its address
\* and the last its description.
C30_Witness ==
    /\ pc = "parseApplicationElements"
    /\ result.developmentApplication # UndefinedApplication
    /\ \E i, j, k \in 1..Len(elements) :
           /\ 2 * elements[i].x < 2 * arguments[4].x - arguments[4].height
           /\ 2 * elements[j].x = 2 * arguments[4].x - arguments[4].height
           /\ 2 * elements[k].x > 2 * arguments[4].x - arguments[4].height
           /\ onDateLine(elements[i]) /\ onDateLine(elements[j]) /\ onDateLine(elements[k])
           /\ elements[i].x > result.applicationDateElement.x + result.applicationDateElement.width
           /\ result.developmentApplication.address = elements[i].text
           /\ result.developmentApplication.description = elements[k].text

-----------------------------------------------------------------------------
(* Further properties of parsePdf, checked under Spec *)

\* C25: the list only grows at its end: no step removes, moves or changes a
\* record of the list; looking at a page, rejected or not, and parsing a band
\* that gives no record leave the list as it is; and the record a band adds is
\* the record parsed from the band but for its application number.
C25_ListIsAppendOnly ==
    [][/\ Len(developmentApplications') >= Len(developmentApplications)
       /\ SubSeq(developmentApplications', 1, Len(developmentApplications)) = developmentApplications
       /\ pc # "group" => developmentApplications' = developmentApplications
       /\ (pc = "group" /\ ~currentGroupResolves) => developmentApplications' = developmentApplications
       /\ (pc = "group" /\ developmentApplications' # developmentApplications)
              => /\ Len(developmentApplications') = Len(developmentApplications) + 1
                 /\ [developmentApplications'[Len(developmentApplications')] EXCEPT
                         !.applicationNumber = <<>>]
                        = [parseApplicationElements(currentGroup.elements, currentGroup.startElement,
                               applicantElementOf(elements), applicationElementOf(elements),
                               proposalElementOf(elements), referralsElementOf(elements))
                           EXCEPT !.applicationNumber = <<>>]]_vars

\* A list of three records has been returned, the third from another page than
\* the first and under a number with a suffix.
C25_Witness ==
    /\ pc = "returned"
    /\ Len(developmentApplications) = 3
    /\ origins[1].pageIndex # origins[3].pageIndex
    /\ developmentApplications[3].applicationNumber
           # origins[3].developmentApplication.applicationNumber

\* C29: a page without text items adds no record and throws nothing, and
\* parsePdf goes on to the next page.
C29_EmptyPageIsSkipped ==
    [][(pc = "items" /\ elements = <<>>)
           => /\ pc' = "page"
              /\ pageIndex' = pageIndex + 1
              /\ developmentApplications' = developmentApplications]_vars

-----------------------------------------------------------------------------
(* Properties of findStartElements and the row bands, checked under SpecMarkers *)

\* C26: findStartElements throws on no page: it returns the start elements of a
\* page also when two texts of one walk match "Lodgement" at the same threshold.
C26_FindStartElementsNeverThrows ==
    [][pc = "markers" => pc' = "findStartElements"]_vars

\* C27: every row band has its own start element among its elements.
C27_BandHoldsItsStartElement ==
    pc = "grouped" =>
        \A g \in 1..Len(applicationElementGroups) :
            \E k \in 1..Len(applicationElementGroups[g].elements) :
                applicationElementGroups[g].elements[k] = applicationElementGroups[g].startElement

\* C28: the start elements found are in the order of their Y co-ordinates and
\* no element is among them twice, so no two row bands have the same start
\* element.
C28_StartElementsSortedAndDistinct ==
    /\ pc = "findStartElements"
           => \A i, j \in 1..Len(result) :
                  i < j => result[i].y <= result[j].y /\ result[i] # result[j]
    /\ pc = "grouped"
           => \A g, h \in 1..Len(applicationElementGroups) :
                  g # h => applicationElementGroups[g].startElement
                               # applicationElementGroups[h].startElement

-----------------------------------------------------------------------------
(* Properties of the loop that adds a unique suffix, checked under SpecSuffix *)

\* The application number with the suffix " (k)", and without one for k = 0.
numbered(applicationNumber, k) ==
    IF k = 0 THEN applicationNumber
    ELSE applicationNumber \o <<" ", "(">> \o numeral(k) \o <<")">>

\* No record of the list with this application number differs from the record
\* in address, description or received date.
agreesWithAll(applicationNumber, record) ==
    \A i \in 1..Len(developmentApplications) :
        developmentApplications[i].applicationNumber = applicationNumber
            => /\ developmentApplications[i].address = record.address
               /\ developmentApplications[i].description = record.description
               /\ developmentApplications[i].receivedDate = record.receivedDate

\* C21: the loop that adds a suffix ends, after at most as many tests as the
\* list has records and one more; the record is then pushed under its number N
\* when no record numbered N differs from it, and otherwise under "N (k)" for
\* the least k >= 1 such that no record numbered "N (k)" differs from it, the
\* suffix always put to N itself.
C21_SuffixLoopTerminates ==
    /\ [](pc = "while" => walk.tests <= Len(developmentApplications))
    /\ [][(pc = "while" /\ pc' = "for")
              => /\ walk'.tests <= Len(developmentApplications) + 1
                 /\ \E k \in 0..Len(developmentApplications) :
                        /\ developmentApplications'[Len(developmentApplications')].applicationNumber
                               = numbered(walk.applicationNumber, k)
                        /\ agreesWithAll(numbered(walk.applicationNumber, k), walk.developmentApplication)
                        /\ \A j \in 0..(k - 1) :
                               ~agreesWithAll(numbered(walk.applicationNumber, j), walk.developmentApplication)]_vars
    /\ (pc = "while" ~> pc = "for")

\* A record has been pushed under its number with the suffix " (2)", after three
\* tests of the loop against a list of two records.
C21_Witness ==
    /\ pc = "for"
    /\ Len(developmentApplications) = 3
    /\ walk.tests = 3
    /\ developmentApplications[3].applicationNumber = numbered(walk.applicationNumber, 2)

\* C24: at every moment, any two records of the list with the same application
\* number have the same address, description and received date.
C24_SameNumberSameContentAlways ==
    \A j \in 1..Len(developmentApplications) :
        agreesWithAll(developmentApplications[j].applicationNumber, developmentApplications[j])

\* The list has a record twice under one number, and a record of other
\* contents under that number with a suffix.
C24_Witness ==
    /\ Len(developmentApplications) = 3
    /\ developmentApplications[1] = developmentApplications[3]
    /\ developmentApplications[2].applicationNumber
           = numbered(developmentApplications[1].applicationNumber, 1)

-----------------------------------------------------------------------------
(* Properties of main and insertRow, checked under SpecMain *)

\* C22: insertRow inserts a row only when the table has no row of the same
\* application number: the table never has two rows of one application number,
\* and inserting a record whose number the table has leaves the table, and so
\* the row it has, as it is.
C22_InsertRowKeepsExistingRow ==
    /\ [](\A row, other \in database :
              row.council_reference = other.council_reference => row = other)
    /\ [][pc = "insertRow"
              => IF \E row \in database :
                        row.council_reference
                            = developmentApplications[insertedRows + 1].applicationNumber
                 THEN database' = database
                 ELSE \E row \in database' :
                          /\ database' = database \cup {row}
                          /\ row.council_reference
                                 = developmentApplications[insertedRows + 1].applicationNumber]_vars

\* The links to PDFs on the page main has read, as main names them.
discovered ==
    {DevelopmentApplicationsUrl \o processed[1].hrefs[i] : i \in
        {i \in 1..Len(processed[1].hrefs) :
            \E k \in 1..(Len(processed[1].hrefs[i]) - 3) :
                toLowerCase(SubSeq(processed[1].hrefs[i], k, k + 3)) = <<".", "p", "d", "f">>}}

\* Where on the page the link is first.
firstLink(url) ==
    SetMin({i \in 1..Len(processed[1].hrefs) : DevelopmentApplicationsUrl \o processed[1].hrefs[i] = url})

\* The most recent of them: the one that comes last on the page.
mostRecent == CHOOSE url \in discovered : \A other \in discovered : firstLink(other) <= firstLink(url)

\* The links main has called parsePdf for, in the order of the calls.
parsedPdfUrls ==
    [k \in 1..parsedDocuments |->
        processed[SetMin({n \in 1..Len(processed) :
            Cardinality({j \in 1..n : processed[j].call = "parsePdf"}) = k})].pdfUrl]

\* C23: with at least one link to a PDF on the page, main chooses the most recent
\* and, if there are others, one of the others, each a link of the page and no
\* link twice; it calls parsePdf for the links chosen in their order, at most
\* twice, and has inserted every record of a document before it parses the
\* next.  Without a link to a PDF it parses and inserts nothing.
C23_AtMostTwoDocumentsInTurn ==
    /\ [](pc # "main"
              => IF discovered = {}
                 THEN pc = "returned" /\ Len(processed) = 1 /\ selectedPdfUrls = <<>>
                 ELSE /\ pc # "returned"
                      /\ Len(selectedPdfUrls) = (IF Cardinality(discovered) > 1 THEN 2 ELSE 1)
                      /\ \A i \in 1..Len(selectedPdfUrls) : selectedPdfUrls[i] \in discovered
                      /\ \E i \in 1..Len(selectedPdfUrls) : selectedPdfUrls[i] = mostRecent
                      /\ \A i, j \in 1..Len(selectedPdfUrls) :
                             i # j => selectedPdfUrls[i] # selectedPdfUrls[j]
                      /\ parsedDocuments <= Len(selectedPdfUrls)
                      /\ parsedPdfUrls = SubSeq(selectedPdfUrls, 1, parsedDocuments))
    /\ [][/\ pc = "main" => database' = database
          /\ (pc # "main" /\ parsedDocuments' > parsedDocuments /\ parsedDocuments > 0)
                 => /\ insertedRows = Len(developmentApplications)
                    /\ \A i \in 1..Len(developmentApplications) :
                           processed[Len(processed) - Len(developmentApplications) + i]
                               = [call |-> "insertRow",
                                  developmentApplication |-> developmentApplications[i]]
          /\ (pc # "main" /\ database' # database)
                 => \E row \in database' :
                        row.info_url = parsedPdfUrls[parsedDocuments]]_vars

\* main has parsed two documents of the three linked on the page, the oldest
\* before the most recent, and has inserted rows of both.
C23_Witness ==
    /\ pc = "for"
    /\ Cardinality(discovered) = 3
    /\ parsedDocuments = 2
    /\ selectedPdfUrls[2] = mostRecent
    /\ \A url \in discovered : firstLink(selectedPdfUrls[1]) <= firstLink(url)
    /\ \E row, other \in database : row.info_url # other.info_url

====
